---------------------------- MODULE Spec2Model ----------------------------
(***************************************************************************)
(* Daily-maximum forecast aggregation of the air-quality forecast API      *)
(* (src/api_service.py): ForecastProcessor and generate_forecast_json.     *)
(*                                                                         *)
(* Concentrations are integers in thousandths of a unit; the response      *)
(* carries them rounded to hundredths (round(valor, 2)).  A timestamp is   *)
(* a record [dia, hora, minuto] with dia = <<year, month, day>>; the       *)
(* '%Y-%m-%d' key of a day is that triple, ordered lexicographically as    *)
(* the zero-padded string is.  A nullable column is <<>> (NULL) or <<v>>.  *)
(***************************************************************************)
EXTENDS Integers, Sequences, FiniteSets, TLC

\* ------------------------------------------------------------------------
\* Bounds of the explored store
\* ------------------------------------------------------------------------
MaxRows == 2
MaxObs == 2

\* ------------------------------------------------------------------------
\* Program constants
\* ------------------------------------------------------------------------
HoraMatutina == 7
HoraVespertina == 16
TipoPronostico == 7
HorasPronostico == 24
Umbral4pm == 16
HoraCobertura == 16
OzoneForecastIdInicial == 7

\* ------------------------------------------------------------------------
\* Input sets
\* ------------------------------------------------------------------------
RefDay == <<2024, 2, 29>>
Contaminantes == {"Ozono", "co", "smog"}
Ciudades == {"cdmx", "MER"}
ClockHours == {15, 16}
Estaciones == {"MER", "UIZ"}
Tablas == {"forecast_otres", "forecast_co"}
GenHours == {7, 16}
GenMinutes == {0}
Offsets == {1, 17, 24}
Values == {0, 16}

\* ------------------------------------------------------------------------
\* str.lower / str.upper on the strings that occur
\* ------------------------------------------------------------------------
Lower(s) ==
    CASE s = "Ozono" -> "ozono"
      [] s = "OZONO" -> "ozono"
      [] s = "CO" -> "co"
      [] s = "COMP6" -> "comp6"
      [] s = "COMP2" -> "comp2"
      [] s = "COMP9" -> "comp9"
      [] OTHER -> s

Upper(s) ==
    CASE s = "cdmx" -> "CDMX"
      [] s = "mer" -> "MER"
      [] s = "uiz" -> "UIZ"
      [] OTHER -> s

\* ------------------------------------------------------------------------
\* datetime arithmetic: proleptic Gregorian calendar, no time zone
\* ------------------------------------------------------------------------
IsLeap(y) == (y % 4 = 0 /\ y % 100 # 0) \/ y % 400 = 0

DaysInMonth(y, m) ==
    IF m = 2 THEN (IF IsLeap(y) THEN 29 ELSE 28)
    ELSE IF m \in {4, 6, 9, 11} THEN 30 ELSE 31

\* date + timedelta(days=1)
NextDay(d) ==
    IF d[3] < DaysInMonth(d[1], d[2]) THEN <<d[1], d[2], d[3] + 1>>
    ELSE IF d[2] < 12 THEN <<d[1], d[2] + 1, 1>>
    ELSE <<d[1] + 1, 1, 1>>

RECURSIVE AddDays(_, _)
AddDays(d, n) == IF n = 0 THEN d ELSE AddDays(NextDay(d), n - 1)

\* datetime + timedelta(hours=k), k >= 0
AddHours(ts, k) ==
    LET total == ts.hora + k
    IN  [dia |-> AddDays(ts.dia, total \div 24), hora |-> total % 24, minuto |-> ts.minuto]

\* strftime('%Y-%m-%d') keys compare as strings: lexicographic on the triple
DiaLess(a, b) ==
    \/ a[1] < b[1]
    \/ a[1] = b[1] /\ a[2] < b[2]
    \/ a[1] = b[1] /\ a[2] = b[2] /\ a[3] < b[3]

\* strftime('%H:%M')
HoraStr(ts) == <<ts.hora, ts.minuto>>

\* ------------------------------------------------------------------------
\* Rows of the forecast tables
\* ------------------------------------------------------------------------
IsNull(x) == x = <<>>

\* column prefix of a table: forecast_otres has hour_pXX and id_est,
\* the statistics tables have avg_hour_pXX and no station column
ColsOf(tabla) == IF tabla = "forecast_otres" THEN "hour_p" ELSE "avg_hour_p"

AllNull == [k \in 1..HorasPronostico |-> <<>>]

NonNullCount(row) == Cardinality({k \in 1..HorasPronostico : ~IsNull(row.vals[k])})

RECURSIVE SumOver(_, _)
SumOver(S, f) ==
    IF S = {} THEN 0
    ELSE LET x == CHOOSE y \in S : TRUE IN f[x] + SumOver(S \ {x}, f)


\* ------------------------------------------------------------------------
\* ForecastProcessor.process_hourly_forecasts
\* ------------------------------------------------------------------------
\* row.get('estacion', 'CDMX')
EstacionOf(row) == IF ColsOf(row.tabla) = "hour_p" THEN row.estacion ELSE "CDMX"

\* variant: a truthiness test (if row[hour_col]) that also drops 0.0
HasValue_truthy(row, prefix, hour_num) ==
    /\ ColsOf(row.tabla) = prefix
    /\ ~IsNull(row.vals[hour_num])
    /\ row.vals[hour_num][1] # 0

\* hour_col in row and row[hour_col] is not None
HasValue(row, prefix, hour_num) ==
    ColsOf(row.tabla) = prefix /\ ~IsNull(row.vals[hour_num])

\* variant: hour_pNN taken as offset NN - 1
Observacion_offset0(row, hour_num) ==
    LET fecha_hora_pronostico == AddHours(row.fecha, hour_num - 1)
    IN  [dia |-> fecha_hora_pronostico.dia,
         valor |-> row.vals[hour_num][1],
         id_est |-> EstacionOf(row),
         hora |-> HoraStr(fecha_hora_pronostico),
         hora_int |-> fecha_hora_pronostico.hora]

\* the record appended to valores_por_dia[dia_str], together with its dia_str
Observacion(row, hour_num) ==
    LET fecha_hora_pronostico == AddHours(row.fecha, hour_num)
    IN  [dia |-> fecha_hora_pronostico.dia,
         valor |-> row.vals[hour_num][1],
         id_est |-> EstacionOf(row),
         hora |-> HoraStr(fecha_hora_pronostico),
         hora_int |-> fecha_hora_pronostico.hora]

\* variant: range(1, 24), which never reads hour_p24
RECURSIVE ObsOfRow_range24(_, _, _)
ObsOfRow_range24(row, prefix, hour_num) ==
    IF hour_num >= HorasPronostico THEN <<>>
    ELSE (IF HasValue(row, prefix, hour_num)
          THEN <<Observacion(row, hour_num)>> ELSE <<>>)
         \o ObsOfRow_range24(row, prefix, hour_num + 1)

\* inner loop: for hour_num in range(1, 25)
RECURSIVE ObsOfRow(_, _, _)
ObsOfRow(row, prefix, hour_num) ==
    IF hour_num > HorasPronostico THEN <<>>
    ELSE (IF HasValue(row, prefix, hour_num)
          THEN <<Observacion(row, hour_num)>> ELSE <<>>)
         \o ObsOfRow(row, prefix, hour_num + 1)

\* outer loop: for row in rows
RECURSIVE ObsOfRows(_, _, _)
ObsOfRows(rows, prefix, i) ==
    IF i > Len(rows) THEN <<>>
    ELSE ObsOfRow(rows[i], prefix, 1) \o ObsOfRows(rows, prefix, i + 1)

\* keys of valores_por_dia in insertion order
RECURSIVE DiasVistos(_, _, _)
DiasVistos(obs, i, seen) ==
    IF i > Len(obs) THEN seen
    ELSE IF \E j \in 1..Len(seen) : seen[j] = obs[i].dia
         THEN DiasVistos(obs, i + 1, seen)
         ELSE DiasVistos(obs, i + 1, Append(seen, obs[i].dia))

\* valores_por_dia[dia]
Registros(obs, dia) == SelectSeq(obs, LAMBDA o : o.dia = dia)

\* variant: min instead of max
RECURSIVE MaxPorValor_min(_, _, _)
MaxPorValor_min(registros, i, best) ==
    IF i > Len(registros) THEN best
    ELSE IF registros[i].valor < best.valor
         THEN MaxPorValor_min(registros, i + 1, registros[i])
         ELSE MaxPorValor_min(registros, i + 1, best)

\* variant: the last of the greatest wins a tie
RECURSIVE MaxPorValor_last(_, _, _)
MaxPorValor_last(registros, i, best) ==
    IF i > Len(registros) THEN best
    ELSE IF registros[i].valor >= best.valor
         THEN MaxPorValor_last(registros, i + 1, registros[i])
         ELSE MaxPorValor_last(registros, i + 1, best)

\* max(registros, key=lambda x: x['valor']): the first of the greatest
RECURSIVE MaxPorValor(_, _, _)
MaxPorValor(registros, i, best) ==
    IF i > Len(registros) THEN best
    ELSE IF registros[i].valor > best.valor
         THEN MaxPorValor(registros, i + 1, registros[i])
         ELSE MaxPorValor(registros, i + 1, best)

\* variant: the sample count is the number of hourly slots of a run
RegistroMax_cuenta_run(registros) ==
    LET registro_max == MaxPorValor(registros, 2, registros[1])
    IN  [valor |-> registro_max.valor,
         id_est |-> registro_max.id_est,
         hora |-> registro_max.hora,
         hora_int |-> registro_max.hora_int,
         horas_disponibles |-> [j \in 1..Len(registros) |-> registros[j].hora_int],
         num_horas_evaluadas |-> HorasPronostico]

RegistroMax(registros) ==
    LET registro_max == MaxPorValor(registros, 2, registros[1])
    IN  [valor |-> registro_max.valor,
         id_est |-> registro_max.id_est,
         hora |-> registro_max.hora,
         hora_int |-> registro_max.hora_int,
         horas_disponibles |-> [j \in 1..Len(registros) |-> registros[j].hora_int],
         num_horas_evaluadas |-> Len(registros)]

\* sorted(d.items()) for a dict kept as a sequence of [dia, reg] items
RECURSIVE InsertSorted(_, _)
InsertSorted(sorted, item) ==
    IF sorted = <<>> THEN <<item>>
    ELSE IF DiaLess(item.dia, sorted[1].dia)
         THEN <<item>> \o sorted
         ELSE <<sorted[1]>> \o InsertSorted(Tail(sorted), item)

RECURSIVE SortedItems(_)
SortedItems(items) ==
    IF items = <<>> THEN <<>>
    ELSE InsertSorted(SortedItems(SubSeq(items, 1, Len(items) - 1)), items[Len(items)])

\* dict helpers
HasKey(d, dia) == \E i \in 1..Len(d) : d[i].dia = dia
Lookup(d, dia) == d[CHOOSE i \in 1..Len(d) : d[i].dia = dia].reg
Keys(d) == {d[i].dia : i \in 1..Len(d)}
\* d[dia] = reg
SetItem(d, dia, reg) ==
    IF HasKey(d, dia)
    THEN [i \in 1..Len(d) |-> IF d[i].dia = dia THEN [dia |-> dia, reg |-> reg] ELSE d[i]]
    ELSE Append(d, [dia |-> dia, reg |-> reg])

process_hourly_forecasts(rows) ==
    IF rows = <<>> THEN <<>>
    ELSE
      LET first_row == rows[1]
          is_ozono_table == ColsOf(first_row.tabla) = "hour_p"
          prefix == IF is_ozono_table THEN "hour_p" ELSE "avg_hour_p"
          obs == ObsOfRows(rows, prefix, 1)
          dias == DiasVistos(obs, 1, <<>>)
          max_por_dia == [i \in 1..Len(dias) |->
                            [dia |-> dias[i], reg |-> RegistroMax(Registros(obs, dias[i]))]]
      IN  SortedItems(max_por_dia)


\* ------------------------------------------------------------------------
\* ForecastProcessor: construction, table and unit mapping, response
\* ------------------------------------------------------------------------
ForecastProcessor(contaminante, ciudad, fecha_datetime) ==
    [contaminante |-> Lower(contaminante),
     ciudad |-> Upper(ciudad),
     fecha_base |-> fecha_datetime]

get_table_name(self) ==
    CASE self.contaminante = "ozono" -> "forecast_otres"
      [] self.contaminante = "co" -> "forecast_co"
      [] self.contaminante = "no" -> "forecast_no"
      [] self.contaminante = "nodos" -> "forecast_nodos"
      [] self.contaminante = "nox" -> "forecast_nox"
      [] self.contaminante = "pmco" -> "forecast_pmco"
      [] self.contaminante = "pm10" -> "forecast_pmdiez"
      [] self.contaminante = "pm25" -> "forecast_pmdoscinco"
      [] self.contaminante = "sodos" -> "forecast_sodos"
      [] OTHER -> "forecast_otres"

get_unidades(self) ==
    CASE self.contaminante \in {"co"} -> "ppm"
      [] self.contaminante \in {"pmco", "pm10", "pm25"} -> "ug/m3"
      [] OTHER -> "ppb"

\* round(valor, 2): thousandths to hundredths (no input lies on a half)
Round2(v) == (v + 5) \div 10

\* the WHERE clause of fetch_forecast_by_hour
Matches(self, hora_generacion, row) ==
    LET table_name == get_table_name(self)
    IN  /\ row.tabla = table_name
        /\ row.fecha.dia = self.fecha_base
        /\ row.fecha.hora = hora_generacion
        /\ table_name = "forecast_otres" => row.tipo = TipoPronostico
        /\ (table_name = "forecast_otres" /\ self.ciudad # "CDMX") => row.estacion = self.ciudad

FechaLeq(a, b) ==
    \/ DiaLess(a.dia, b.dia)
    \/ a.dia = b.dia /\ (a.hora < b.hora \/ (a.hora = b.hora /\ a.minuto <= b.minuto))

\* the result lists the query may return: the matching rows, ORDER BY fecha ASC,
\* rows of equal fecha in any order
fetch_forecast_by_hour(self, db, hora_generacion) ==
    LET hit == {row \in db : Matches(self, hora_generacion, row)}
        n == Cardinality(hit)
    IN  {rows \in [1..n -> hit] :
            /\ \A i, j \in 1..n : i # j => rows[i] # rows[j]
            /\ \A i, j \in 1..n : i < j => FechaLeq(rows[i].fecha, rows[j].fecha)}

PronosticoItem(dia_str, registro) ==
    [dia |-> dia_str,
     valor |-> Round2(registro.valor),
     fuente |-> "pronostico",
     id_est |-> registro.id_est,
     hora |-> registro.hora]

FilterKeys(d, keep) == SelectSeq(d, LAMBDA item : item.dia \in keep)

\* variant: the ozone filter without the 16:00 coverage test
FiltroOzono_sin_cobertura(self, daily_max) ==
    SortedItems(FilterKeys(daily_max, {self.fecha_base, AddDays(self.fecha_base, 1)}))

\* the ozone day filter of build_response
FiltroOzono(self, daily_max) ==
    LET dia_siguiente == AddDays(self.fecha_base, 1)
        dia_corriente == self.fecha_base
        tiene_datos_despues_4pm_dia_siguiente ==
            /\ HasKey(daily_max, dia_siguiente)
            /\ LET horas_disponibles == Lookup(daily_max, dia_siguiente).horas_disponibles
               IN  \E j \in 1..Len(horas_disponibles) : horas_disponibles[j] >= HoraCobertura
    IN  IF tiene_datos_despues_4pm_dia_siguiente
        THEN SortedItems(FilterKeys(daily_max, {dia_corriente, dia_siguiente}))
        ELSE FilterKeys(daily_max, {dia_corriente})

build_response(self, daily_max) ==
    LET daily_max_filtrado ==
            IF self.contaminante = "ozono" /\ daily_max # <<>>
            THEN FiltroOzono(self, daily_max)
            ELSE daily_max
    IN  [status |-> 200,
         ciudad |-> self.ciudad,
         fecha_pron |-> self.fecha_base,
         unidades |-> get_unidades(self),
         pronos |-> [i \in 1..Len(daily_max_filtrado) |->
                        PronosticoItem(daily_max_filtrado[i].dia, daily_max_filtrado[i].reg)]]

\* raise HTTPException(status_code=...)
HTTPException(self, status_code) ==
    [status |-> status_code,
     ciudad |-> self.ciudad,
     fecha_pron |-> self.fecha_base,
     unidades |-> get_unidades(self),
     pronos |-> <<>>]

\* ------------------------------------------------------------------------
\* State
\* ------------------------------------------------------------------------
VARIABLES
    store,                  \* rows of the forecast tables
    pc,                     \* position of the current-forecast request
    request,                \* path parameters of the request
    processor,              \* the request's ForecastProcessor
    hora_actual,            \* datetime.now().hour as read by the request
    fetch_log,              \* hora_generacion of every fetch issued, in order
    rows_matutino,
    daily_max_matutino,
    rows_vespertino,
    daily_max_vespertino,
    response,               \* what the endpoint returned or raised
    hist_request,           \* path parameters of the historical request
    hist_processor,         \* the request's HistoricalForecastProcessor
    hist_fetch_log,         \* parameters of every historical fetch issued, in order
    hist_rows,              \* rows returned by fetch_historical_data
    daily_maxes,            \* result of calculate_daily_maximums
    hist_response,          \* what the historical endpoint returned or raised
    conexion,               \* PostgresConnection.connection of the summary's service
    resumen_fecha,          \* the fecha of the summary call: <<>> or <<timestamp>>
    resumen,                \* what get_maximum_ozone_forecast_summary returned
    fallo_store,            \* a connection or query of the summary call failed
    reloj,                  \* datetime.now().hour of the wall clock
    tareas,                 \* the local variables of each request served concurrently
    esc_rows,               \* rows of the single-row generation run
    esc_out,                \* process_hourly_forecasts of esc_rows
    loop_pc,                \* position of run_loop_forecast.main
    ahora,                  \* the wall clock of the restart loop, in minutes
    next_run,               \* next_run of the scheduled job
    servidor,               \* the app.py process: "none" or "running"
    ultimo_reinicio,        \* the last call of restart_server
    lanzamientos,           \* number of calls of restart_server
    OZONE_FORECAST_ID,      \* the module global of config.py
    POLLUTANT_CONFIG,       \* config.POLLUTANT_CONFIG: the forecast_id of each entry
    llamadas,               \* the arguments of the set_ozone_forecast_id calls so far
    pg_funcion,             \* the module-level query function being run
    pg_pc,                  \* its position: "idle", "try", "returned", "raised"
    pg_plan,                \* the service methods it has still to call
    pg_conexion,            \* PostgresConnection.connection of its service
    pg_abiertas,            \* psycopg2 connections it opened and has not closed
    pg_cerrado,             \* service.close() has run
    pg_log                  \* the queries executed, in order


\* ------------------------------------------------------------------------
\* generate_forecast_json: the gate and PASO 3
\* ------------------------------------------------------------------------
\* variant: the gate written for a 12-hour clock
es_despues_4pm_12h(hora) == hora >= 4

\* variant: the gate reads the wall clock anew each time it is evaluated
es_despues_4pm_relectura(hora) == reloj >= Umbral4pm

es_despues_4pm(hora) == hora >= Umbral4pm

\* variant: the combined mapping starts as a copy of the whole morning mapping
Combinar_desde_matutino(fecha_datetime, hora, matutino, vespertino) ==
    LET dia_siguiente == AddDays(fecha_datetime, 1)
    IN  IF es_despues_4pm(hora) /\ vespertino # <<>> /\ HasKey(vespertino, dia_siguiente)
        THEN SetItem(matutino, dia_siguiente, Lookup(vespertino, dia_siguiente))
        ELSE matutino

\* variant: the afternoon run also overrides the current day
Combinar_vespertino_hoy(fecha_datetime, hora, matutino, vespertino) ==
    LET dia_actual == fecha_datetime
        dia_siguiente == AddDays(fecha_datetime, 1)
        con_actual ==
            IF vespertino # <<>> /\ HasKey(vespertino, dia_actual)
            THEN SetItem(<<>>, dia_actual, Lookup(vespertino, dia_actual))
            ELSE IF HasKey(matutino, dia_actual)
                 THEN SetItem(<<>>, dia_actual, Lookup(matutino, dia_actual))
                 ELSE <<>>
    IN  IF es_despues_4pm(hora) /\ vespertino # <<>> /\ HasKey(vespertino, dia_siguiente)
        THEN SetItem(con_actual, dia_siguiente, Lookup(vespertino, dia_siguiente))
        ELSE con_actual

\* variant: the day after is put into the combined mapping before the current day
Combinar_siguiente_primero(fecha_datetime, hora, matutino, vespertino) ==
    LET dia_actual == fecha_datetime
        dia_siguiente == AddDays(fecha_datetime, 1)
        con_siguiente ==
            IF es_despues_4pm(hora) /\ vespertino # <<>> /\ HasKey(vespertino, dia_siguiente)
            THEN SetItem(<<>>, dia_siguiente, Lookup(vespertino, dia_siguiente))
            ELSE <<>>
    IN  IF HasKey(matutino, dia_actual)
        THEN SetItem(con_siguiente, dia_actual, Lookup(matutino, dia_actual))
        ELSE con_siguiente

Combinar(fecha_datetime, hora, matutino, vespertino) ==
    LET dia_actual == fecha_datetime
        dia_siguiente == AddDays(fecha_datetime, 1)
        con_actual ==
            IF HasKey(matutino, dia_actual)
            THEN SetItem(<<>>, dia_actual, Lookup(matutino, dia_actual))
            ELSE <<>>
    IN  IF es_despues_4pm(hora) /\ vespertino # <<>> /\ HasKey(vespertino, dia_siguiente)
        THEN SetItem(con_actual, dia_siguiente, Lookup(vespertino, dia_siguiente))
        ELSE con_actual

\* PASO 3 to the return: the combined mapping and the outcome of the request
Responder(self, fecha_datetime, hora, matutino, vespertino) ==
    LET daily_max_combinado == Combinar(fecha_datetime, hora, matutino, vespertino)
    IN  IF daily_max_combinado = <<>>
        THEN HTTPException(self, 404)
        ELSE build_response(self, daily_max_combinado)


\* ------------------------------------------------------------------------
\* Groups of variables, and the state before any request
\* ------------------------------------------------------------------------
hist_vars == <<hist_request, hist_processor, hist_fetch_log, hist_rows, daily_maxes,
               hist_response>>

current_vars == <<request, processor, hora_actual, fetch_log, rows_matutino,
                  daily_max_matutino, rows_vespertino, daily_max_vespertino, response>>

resumen_vars == <<conexion, resumen_fecha, resumen, fallo_store>>

servicio_vars == <<reloj, tareas>>

escenario_vars == <<esc_rows, esc_out>>

loop_vars == <<loop_pc, ahora, next_run, servidor, ultimo_reinicio, lanzamientos>>

config_vars == <<OZONE_FORECAST_ID, POLLUTANT_CONFIG, llamadas>>

pg_vars == <<pg_funcion, pg_pc, pg_plan, pg_conexion, pg_abiertas, pg_cerrado, pg_log>>

\* the state of the programs beside the two endpoints and the summary
aux_vars == <<servicio_vars, escenario_vars, loop_vars, config_vars, pg_vars>>

\* the state of the two endpoints and the summary, but for the store
endpoint_vars == <<pc, current_vars, hist_vars, resumen_vars>>

\* everything but the store and the named group
resto_servicio == <<endpoint_vars, escenario_vars, loop_vars, config_vars, pg_vars>>

resto_escenario == <<endpoint_vars, servicio_vars, loop_vars, config_vars, pg_vars>>

resto_loop == <<endpoint_vars, servicio_vars, escenario_vars, config_vars, pg_vars>>

resto_config == <<endpoint_vars, servicio_vars, escenario_vars, loop_vars, pg_vars>>

resto_pg == <<endpoint_vars, servicio_vars, escenario_vars, loop_vars, config_vars>>

vars == <<store, pc, current_vars, hist_vars, resumen_vars, aux_vars>>

request_vars == <<pc, current_vars, hist_vars, resumen_vars, aux_vars>>

NoRequest == [contaminante |-> "", ciudad |-> "", fecha_datetime |-> RefDay]

NoResponse ==
    [status |-> 0, ciudad |-> "", fecha_pron |-> RefDay, unidades |-> "", pronos |-> <<>>]

NoHistRequest == [component |-> "", location_id |-> "", startdate |-> <<>>, enddate |-> <<>>]

NoHistProcessor ==
    [component |-> "", location_id |-> "", horizon_days |-> 0, id_tipo_pronostico |-> 0,
     model_name |-> "", table_name |-> ""]

NoHistResponse == [status |-> 0, success |-> FALSE, data |-> <<>>, count |-> 0]

\* the summary with every field None
ResumenNone ==
    [max_value |-> <<>>, station |-> <<>>, station_name |-> <<>>, hour |-> <<>>,
     hour_number |-> <<>>]

\* the requests in flight at once
Tareas == {1, 2}

\* the locals of a coroutine that has not started
NoTarea ==
    [tipo |-> "", pc |-> "idle", request |-> NoRequest, hora_actual |-> 0,
     processor |-> ForecastProcessor("", "", RefDay), fetch_log |-> <<>>,
     daily_max_matutino |-> <<>>, response |-> NoResponse,
     hist_request |-> NoHistRequest, hist_processor |-> NoHistProcessor,
     hist_response |-> NoHistResponse]

\* readings of datetime.now().hour the wall clock passes through: before the
\* 16:00 gate and past it
HorasReloj == <<15, 16>>

TotalObs == SumOver(store, [row \in store |-> NonNullCount(row)])

Init ==
    /\ store = {}
    /\ pc = "idle"
    /\ request = NoRequest
    /\ processor = ForecastProcessor("", "", RefDay)
    /\ hora_actual = 0
    /\ fetch_log = <<>>
    /\ rows_matutino = <<>>
    /\ daily_max_matutino = <<>>
    /\ rows_vespertino = <<>>
    /\ daily_max_vespertino = <<>>
    /\ response = NoResponse
    /\ hist_request = NoHistRequest
    /\ hist_processor = NoHistProcessor
    /\ hist_fetch_log = <<>>
    /\ hist_rows = <<>>
    /\ daily_maxes = <<>>
    /\ hist_response = NoHistResponse
    /\ conexion = "none"
    /\ resumen_fecha = <<>>
    /\ resumen = ResumenNone
    /\ fallo_store = FALSE
    /\ reloj = HorasReloj[1]
    /\ tareas = [t \in Tareas |-> NoTarea]
    /\ esc_rows = <<>>
    /\ esc_out = <<>>
    /\ loop_pc = "start"
    /\ ahora = 0
    /\ next_run = 0
    /\ servidor = "none"
    /\ ultimo_reinicio = [minuto |-> 0, programado |-> FALSE, detenido_antes |-> FALSE]
    /\ lanzamientos = 0
    /\ OZONE_FORECAST_ID = OzoneForecastIdInicial
    /\ POLLUTANT_CONFIG = [O3 |-> [forecast_id |-> OzoneForecastIdInicial]]
    /\ llamadas = <<>>
    /\ pg_funcion = ""
    /\ pg_pc = "idle"
    /\ pg_plan = <<>>
    /\ pg_conexion = "none"
    /\ pg_abiertas = 0
    /\ pg_cerrado = FALSE
    /\ pg_log = <<>>

\* ------------------------------------------------------------------------
\* The upstream pipeline fills the tables before the request is served
\* ------------------------------------------------------------------------
NewRow(tabla, hora, minuto, estacion) ==
    [tabla |-> tabla,
     fecha |-> [dia |-> RefDay, hora |-> hora, minuto |-> minuto],
     estacion |-> IF ColsOf(tabla) = "hour_p" THEN estacion ELSE "n/a",
     tipo |-> IF ColsOf(tabla) = "hour_p" THEN TipoPronostico ELSE 0,
     vals |-> AllNull]

SameKey(a, b) ==
    a.tabla = b.tabla /\ a.fecha = b.fecha /\ a.estacion = b.estacion /\ a.tipo = b.tipo

InsertRow ==
    /\ pc = "idle"
    /\ Cardinality(store) < MaxRows
    /\ \E tabla \in Tablas, hora \in GenHours, minuto \in GenMinutes, estacion \in Estaciones :
          LET row == NewRow(tabla, hora, minuto, estacion)
          IN  /\ \A other \in store : ~SameKey(other, row)
              /\ store' = store \cup {row}
    /\ UNCHANGED request_vars

SetHourValue ==
    /\ pc = "idle"
    /\ TotalObs < MaxObs
    /\ \E row \in store, k \in Offsets, v \in Values :
          /\ IsNull(row.vals[k])
          /\ store' = (store \ {row}) \cup {[row EXCEPT !.vals[k] = <<v>>]}
    /\ UNCHANGED request_vars

\* ------------------------------------------------------------------------
\* GET /ai_vi_transformer01/{contaminante}/{ciudad}/{fecha_pron}
\* ------------------------------------------------------------------------
\* the endpoint up to the first await: clock read, processor, morning fetch issued
RequestArrives ==
    /\ pc = "idle"
    /\ \E contaminante \in Contaminantes, ciudad \in Ciudades, hora \in ClockHours :
          /\ request' = [contaminante |-> contaminante, ciudad |-> ciudad,
                         fecha_datetime |-> RefDay]
          /\ hora_actual' = hora
          /\ processor' = ForecastProcessor(contaminante, ciudad, RefDay)
    /\ fetch_log' = Append(fetch_log, HoraMatutina)
    /\ pc' = "await_matutino"
    /\ UNCHANGED <<store, aux_vars, rows_matutino, daily_max_matutino, rows_vespertino,
                   daily_max_vespertino, response, hist_vars, resumen_vars>>

\* the morning fetch returns: PASO 1, then PASO 2 up to its await or PASO 3
MatutinoReturns ==
    /\ pc = "await_matutino"
    /\ \E rows \in fetch_forecast_by_hour(processor, store, HoraMatutina) :
          /\ rows_matutino' = rows
          /\ IF rows = <<>>
             THEN /\ response' = HTTPException(processor, 404)
                  /\ pc' = "done"
                  /\ UNCHANGED <<daily_max_matutino, fetch_log>>
             ELSE /\ daily_max_matutino' = process_hourly_forecasts(rows)
                  /\ IF es_despues_4pm(hora_actual)
                     THEN /\ fetch_log' = Append(fetch_log, HoraVespertina)
                          /\ pc' = "await_vespertino"
                          /\ UNCHANGED response
                     ELSE /\ response' = Responder(processor, request.fecha_datetime,
                                                   hora_actual, daily_max_matutino', <<>>)
                          /\ pc' = "done"
                          /\ UNCHANGED fetch_log
    /\ UNCHANGED <<store, aux_vars, request, processor, hora_actual, rows_vespertino,
                   daily_max_vespertino, hist_vars, resumen_vars>>

\* variant: the afternoon run is mandatory, as the morning run is
VespertinoReturns_obligatorio ==
    /\ pc = "await_vespertino"
    /\ \E rows \in fetch_forecast_by_hour(processor, store, HoraVespertina) :
          /\ rows_vespertino' = rows
          /\ daily_max_vespertino' =
                IF rows # <<>> THEN process_hourly_forecasts(rows) ELSE <<>>
          /\ response' =
                IF rows = <<>> THEN HTTPException(processor, 404)
                ELSE Responder(processor, request.fecha_datetime, hora_actual,
                               daily_max_matutino, daily_max_vespertino')
    /\ pc' = "done"
    /\ UNCHANGED <<store, aux_vars, request, processor, hora_actual, fetch_log, rows_matutino,
                   daily_max_matutino, hist_vars, resumen_vars>>

\* the afternoon fetch returns: rest of PASO 2, PASO 3, build_response
VespertinoReturns ==
    /\ pc = "await_vespertino"
    /\ \E rows \in fetch_forecast_by_hour(processor, store, HoraVespertina) :
          /\ rows_vespertino' = rows
          /\ daily_max_vespertino' =
                IF rows # <<>> THEN process_hourly_forecasts(rows) ELSE <<>>
    /\ response' = Responder(processor, request.fecha_datetime, hora_actual,
                             daily_max_matutino, daily_max_vespertino')
    /\ pc' = "done"
    /\ UNCHANGED <<store, aux_vars, request, processor, hora_actual, fetch_log, rows_matutino,
                   daily_max_matutino, hist_vars, resumen_vars>>

\* variant: a failure of the afternoon fetch is taken as an afternoon run
\* without rows, and the request is answered from the morning run
FetchFails_parcial ==
    /\ pc \in {"await_matutino", "await_vespertino"}
    /\ IF pc = "await_vespertino"
       THEN /\ response' = Responder(processor, request.fecha_datetime, hora_actual,
                                     daily_max_matutino, <<>>)
            /\ pc' = "done"
            /\ UNCHANGED fetch_log
       ELSE /\ response' = HTTPException(processor, 500)
            /\ pc' = "failed"
            /\ UNCHANGED fetch_log
    /\ UNCHANGED <<store, aux_vars, request, processor, hora_actual, rows_matutino,
                   daily_max_matutino, rows_vespertino, daily_max_vespertino, hist_vars, resumen_vars>>

\* variant: a fetch that raised is issued once more
FetchFails_reintenta ==
    /\ pc \in {"await_matutino", "await_vespertino"}
    /\ IF Len(fetch_log) < 3
       THEN /\ fetch_log' = Append(fetch_log, fetch_log[Len(fetch_log)])
            /\ UNCHANGED <<pc, response>>
       ELSE /\ response' = HTTPException(processor, 500)
            /\ pc' = "failed"
            /\ UNCHANGED fetch_log
    /\ UNCHANGED <<store, aux_vars, request, processor, hora_actual, rows_matutino,
                   daily_max_matutino, rows_vespertino, daily_max_vespertino, hist_vars, resumen_vars>>

\* a fetch raises: the exception leaves generate_forecast_json and the endpoint
\* turns it into a 500
FetchFails ==
    /\ pc \in {"await_matutino", "await_vespertino"}
    /\ response' = HTTPException(processor, 500)
    /\ pc' = "failed"
    /\ UNCHANGED <<store, aux_vars, request, processor, hora_actual, fetch_log, rows_matutino,
                   daily_max_matutino, rows_vespertino, daily_max_vespertino, hist_vars, resumen_vars>>

Next ==
    \/ InsertRow
    \/ SetHourValue
    \/ RequestArrives
    \/ MatutinoReturns
    \/ VespertinoReturns
    \/ FetchFails

Spec == Init /\ [][Next]_vars


\* ------------------------------------------------------------------------
\* Date strings of the historical endpoint: sequences of characters
\* ------------------------------------------------------------------------
Digits == <<"0", "1", "2", "3", "4", "5", "6", "7", "8", "9">>
DigitChar(n) == Digits[n + 1]
IsDigit(c) == \E n \in 0..9 : Digits[n + 1] = c
DigitVal(c) == CHOOSE n \in 0..9 : Digits[n + 1] = c

\* code points of the characters that occur: '-' < '/' < '0' < ... < '9'
Ord(c) == CASE c = "-" -> 45 [] c = "/" -> 47 [] OTHER -> 48 + DigitVal(c)

\* a > b on str: the first differing character decides, a proper prefix is smaller
RECURSIVE StrGreater(_, _)
StrGreater(a, b) ==
    IF a = <<>> THEN FALSE
    ELSE IF b = <<>> THEN TRUE
    ELSE IF Ord(a[1]) # Ord(b[1]) THEN Ord(a[1]) > Ord(b[1])
    ELSE StrGreater(Tail(a), Tail(b))

RECURSIVE Number(_)
Number(cs) == IF cs = <<>> THEN 0 ELSE 10 * Number(SubSeq(cs, 1, Len(cs) - 1)) + DigitVal(cs[Len(cs)])

\* datetime.strptime(s, '%Y-%m-%d'): <<date>>, or <<>> for ValueError.  %Y takes
\* four digits, %m and %d take one or two digits, and the date must exist.
strptime(s) ==
    LET dashes == {i \in 1..Len(s) : s[i] = "-"}
    IN  IF /\ Len(s) \in 8..10
           /\ Cardinality(dashes) = 2
           /\ 5 \in dashes
           /\ \A i \in 1..Len(s) : i \notin dashes => IsDigit(s[i])
        THEN LET p == CHOOSE i \in dashes : i # 5
                 Y == Number(SubSeq(s, 1, 4))
                 m == SubSeq(s, 6, p - 1)
                 d == SubSeq(s, p + 1, Len(s))
             IN  IF /\ Len(m) \in 1..2
                    /\ Len(d) \in 1..2
                    /\ Y >= 1
                    /\ Number(m) \in 1..12
                    /\ Number(d) \in 1..DaysInMonth(Y, Number(m))
                 THEN << <<Y, Number(m), Number(d)>> >>
                 ELSE <<>>
        ELSE <<>>

\* ------------------------------------------------------------------------
\* HistoricalForecastProcessor
\* ------------------------------------------------------------------------
COMPONENT_MODEL_MAP ==
    [comp6 |-> [id_tipo_pronostico |-> 7, nombre |-> "C6: Aprendizaje automatico",
                tabla |-> "forecast_otres"],
     comp2 |-> [id_tipo_pronostico |-> 2,
                nombre |-> "C2: Modelos multivariados y de valores extremos",
                tabla |-> "forecast_otres"]]

\* __init__ for a component of COMPONENT_MODEL_MAP (the endpoint has tested it)
HistoricalForecastProcessor(component, location_id, horizon_days) ==
    LET model_config == COMPONENT_MODEL_MAP[Lower(component)]
    IN  [component |-> Lower(component),
         location_id |-> Upper(location_id),
         horizon_days |-> horizon_days,
         id_tipo_pronostico |-> model_config.id_tipo_pronostico,
         model_name |-> model_config.nombre,
         table_name |-> model_config.tabla]

\* a <= b on date objects
DateLeq(a, b) == a = b \/ DiaLess(a, b)

\* the WHERE clause of fetch_historical_data
HistMatches(self, startdate_obj, enddate_obj, hora_generacion, row) ==
    /\ row.tabla = "forecast_otres"
    /\ DateLeq(startdate_obj, row.fecha.dia)
    /\ DateLeq(row.fecha.dia, enddate_obj)
    /\ row.fecha.hora = hora_generacion
    /\ row.tipo = self.id_tipo_pronostico
    /\ self.location_id # "CDMX" => row.estacion = self.location_id

\* id_est ASC on the station codes that occur
EstRank(e) == CASE e = "MER" -> 1 [] e = "UIZ" -> 2 [] OTHER -> 0

\* the result lists the query may return: ORDER BY fecha ASC, id_est ASC for the
\* whole city, ORDER BY fecha ASC for one station
fetch_historical_data(self, db, startdate, enddate, hora_generacion) ==
    LET startdate_obj == strptime(startdate)[1]
        enddate_obj == strptime(enddate)[1]
        hit == {row \in db : HistMatches(self, startdate_obj, enddate_obj, hora_generacion, row)}
        n == Cardinality(hit)
    IN  {rows \in [1..n -> hit] :
            /\ \A i, j \in 1..n : i # j => rows[i] # rows[j]
            /\ \A i, j \in 1..n : i < j =>
                  /\ FechaLeq(rows[i].fecha, rows[j].fecha)
                  /\ (self.location_id = "CDMX" /\ rows[i].fecha = rows[j].fecha) =>
                        EstRank(rows[i].estacion) <= EstRank(rows[j].estacion)}

\* the record appended to datos_por_fecha[fecha_gen]
HistValor(row, hour_num) ==
    LET fecha_hora_pron == AddHours(row.fecha, hour_num)
    IN  [valor |-> row.vals[hour_num][1],
         estacion |-> row.estacion,
         fecha_pron |-> fecha_hora_pron.dia,
         hora_pron |-> HoraStr(fecha_hora_pron)]

\* inner loop: for hour_num in range(1, 25)
RECURSIVE HistValoresDeFila(_, _)
HistValoresDeFila(row, hour_num) ==
    IF hour_num > HorasPronostico THEN <<>>
    ELSE (IF ~IsNull(row.vals[hour_num]) THEN <<HistValor(row, hour_num)>> ELSE <<>>)
         \o HistValoresDeFila(row, hour_num + 1)

\* variant: a value is grouped under the day it is forecast for
RECURSIVE DatosPorFecha_fecha_pron(_, _, _)
DatosPorFecha_fecha_pron(rows, fecha_gen, i) ==
    IF i > Len(rows) THEN <<>>
    ELSE SelectSeq(HistValoresDeFila(rows[i], 1), LAMBDA v : v.fecha_pron = fecha_gen)
         \o DatosPorFecha_fecha_pron(rows, fecha_gen, i + 1)

\* variant: a later row of a generation day replaces the earlier ones
RECURSIVE DatosPorFecha_ultima_fila(_, _, _)
DatosPorFecha_ultima_fila(rows, fecha_gen, i) ==
    IF i > Len(rows) THEN <<>>
    ELSE LET resto == DatosPorFecha_ultima_fila(rows, fecha_gen, i + 1)
         IN  IF rows[i].fecha.dia = fecha_gen /\ resto = <<>>
             THEN HistValoresDeFila(rows[i], 1)
             ELSE resto

\* datos_por_fecha[fecha_gen] after the loop over rows: the values of the rows
\* whose DATE(fecha) is fecha_gen, in row-then-offset order
RECURSIVE DatosPorFecha(_, _, _)
DatosPorFecha(rows, fecha_gen, i) ==
    IF i > Len(rows) THEN <<>>
    ELSE (IF rows[i].fecha.dia = fecha_gen THEN HistValoresDeFila(rows[i], 1) ELSE <<>>)
         \o DatosPorFecha(rows, fecha_gen, i + 1)

\* keys of datos_por_fecha in insertion order
RECURSIVE FechasGen(_, _, _)
FechasGen(rows, i, seen) ==
    IF i > Len(rows) THEN seen
    ELSE IF \E j \in 1..Len(seen) : seen[j] = rows[i].fecha.dia
         THEN FechasGen(rows, i + 1, seen)
         ELSE FechasGen(rows, i + 1, Append(seen, rows[i].fecha.dia))

\* maximos_por_fecha[fecha_gen]
MaximoDeFecha(fecha_gen, valores) ==
    LET max_registro == MaxPorValor(valores, 2, valores[1])
    IN  [fecha_gen |-> fecha_gen,
         max_valor |-> max_registro.valor,
         fecha_pron |-> max_registro.fecha_pron,
         estacion |-> max_registro.estacion,
         num_valores |-> Len(valores)]

calculate_daily_maximums(rows) ==
    IF rows = <<>> THEN <<>>
    ELSE
      LET fechas == FechasGen(rows, 1, <<>>)
          con_valores == SelectSeq(fechas, LAMBDA f : DatosPorFecha(rows, f, 1) # <<>>)
      IN  [i \in 1..Len(con_valores) |->
              [dia |-> con_valores[i],
               reg |-> MaximoDeFecha(con_valores[i], DatosPorFecha(rows, con_valores[i], 1))]]

\* f"{max_valor:.2f}": thousandths to hundredths (no input lies on a half)
Format2f(v) == (v + 5) \div 10

HistoricalForecastItem(self, registro) ==
    [model_name |-> self.model_name,
     forecast_date |-> registro.fecha_gen,
     predicted_value |-> Format2f(registro.max_valor),
     forecast_generation_date |-> registro.fecha_gen,
     horizon |-> 0]

build_historical_response(self, maxes, location_id, horizon_days) ==
    LET ordenado == SortedItems(maxes)
        data_items == [i \in 1..Len(ordenado) |-> HistoricalForecastItem(self, ordenado[i].reg)]
    IN  [status |-> 200, success |-> TRUE, data |-> data_items, count |-> Len(data_items)]

\* raise HTTPException(status_code=...) in the historical endpoint
HistHTTPException(status_code) ==
    [status |-> status_code, success |-> FALSE, data |-> <<>>, count |-> 0]

\* variant: the date-order test is missing
Validar_sin_orden(component, startdate, enddate) ==
    IF strptime(startdate) = <<>> \/ strptime(enddate) = <<>> THEN 400
    ELSE IF Lower(component) \notin DOMAIN COMPONENT_MODEL_MAP THEN 400
    ELSE 0

\* the validations of get_historical_forecasts, in order: the status of the
\* HTTPException raised, or 0 when the request passes
Validar(component, startdate, enddate) ==
    IF strptime(startdate) = <<>> \/ strptime(enddate) = <<>> THEN 400
    ELSE IF StrGreater(startdate, enddate) THEN 400
    ELSE IF Lower(component) \notin DOMAIN COMPONENT_MODEL_MAP THEN 400
    ELSE 0

\* variant: no not-found tests, an empty result is answered with an empty series
HistResponder_sin_404(self, rows, location_id, horizon_days) ==
    build_historical_response(self, calculate_daily_maximums(rows), location_id, horizon_days)

\* get_historical_forecasts after the fetch: the two not-found tests and the response
HistResponder(self, rows, location_id, horizon_days) ==
    IF rows = <<>> THEN HistHTTPException(404)
    ELSE LET maxes == calculate_daily_maximums(rows)
         IN  IF maxes = <<>>
             THEN HistHTTPException(404)
             ELSE build_historical_response(self, maxes, location_id, horizon_days)

\* ------------------------------------------------------------------------
\* Inputs of the historical endpoint
\* ------------------------------------------------------------------------
Year4(y) ==
    <<DigitChar(y \div 1000), DigitChar((y \div 100) % 10), DigitChar((y \div 10) % 10),
      DigitChar(y % 10)>>
Pad2(n) == <<DigitChar(n \div 10), DigitChar(n % 10)>>
NoPad(n) == IF n < 10 THEN <<DigitChar(n)>> ELSE Pad2(n)

\* a day written YYYY-MM-DD, and written without zero padding
Iso(d) == Year4(d[1]) \o <<"-">> \o Pad2(d[2]) \o <<"-">> \o Pad2(d[3])
Plain(d) == Year4(d[1]) \o <<"-">> \o NoPad(d[2]) \o <<"-">> \o NoPad(d[3])

HistDays == {RefDay, NextDay(RefDay)}
BadDate == <<"2", "0", "2", "4", "/", "0", "3", "/", "0", "1">>
DateStrings == {Iso(RefDay), Plain(RefDay), Iso(NextDay(RefDay)), BadDate}
Components == {"comp6", "COMP2", "comp9"}
HistOffsets == {1, 17}

\* the morning rows of the ozone table over the days of the range
InsertHistRow ==
    /\ pc = "idle"
    /\ Cardinality(store) < MaxRows
    /\ \E dia \in HistDays, estacion \in Estaciones :
          LET row == [NewRow("forecast_otres", HoraMatutina, 0, estacion)
                         EXCEPT !.fecha.dia = dia]
          IN  /\ \A other \in store : ~SameKey(other, row)
              /\ store' = store \cup {row}
    /\ UNCHANGED request_vars

SetHistValue ==
    /\ pc = "idle"
    /\ TotalObs < MaxObs
    /\ \E row \in store, k \in HistOffsets, v \in Values :
          /\ IsNull(row.vals[k])
          /\ store' = (store \ {row}) \cup {[row EXCEPT !.vals[k] = <<v>>]}
    /\ UNCHANGED request_vars

\* ------------------------------------------------------------------------
\* GET /{component}/{location_id}/{horizon_days}/{startdate}/{enddate}
\* ------------------------------------------------------------------------
\* the endpoint up to its await: the three validations, the processor, the fetch issued
HistRequestArrives ==
    /\ pc = "idle"
    /\ \E component \in Components, location_id \in Ciudades,
          startdate \in DateStrings, enddate \in DateStrings :
          /\ hist_request' = [component |-> component, location_id |-> location_id,
                              startdate |-> startdate, enddate |-> enddate]
          /\ IF Validar(component, startdate, enddate) # 0
             THEN /\ hist_response' = HistHTTPException(Validar(component, startdate, enddate))
                  /\ pc' = "done"
                  /\ UNCHANGED <<hist_processor, hist_fetch_log>>
             ELSE /\ hist_processor' = HistoricalForecastProcessor(component, location_id, 0)
                  /\ hist_fetch_log' =
                        Append(hist_fetch_log, [startdate |-> startdate, enddate |-> enddate,
                                                hora_generacion |-> HoraMatutina])
                  /\ pc' = "await_historico"
                  /\ UNCHANGED hist_response
    /\ UNCHANGED <<store, aux_vars, current_vars, resumen_vars, hist_rows, daily_maxes>>

\* the fetch returns: the two not-found tests and the response
HistFetchReturns ==
    /\ pc = "await_historico"
    /\ \E rows \in fetch_historical_data(hist_processor, store, hist_request.startdate,
                                         hist_request.enddate, HoraMatutina) :
          /\ hist_rows' = rows
          /\ daily_maxes' = IF rows = <<>> THEN <<>> ELSE calculate_daily_maximums(rows)
          /\ hist_response' = HistResponder(hist_processor, rows, hist_request.location_id, 0)
    /\ pc' = "done"
    /\ UNCHANGED <<store, aux_vars, current_vars, resumen_vars, hist_request, hist_processor, hist_fetch_log>>

\* the fetch raises: logged, re-raised, and turned into a 500 by the endpoint
HistFetchFails ==
    /\ pc = "await_historico"
    /\ hist_response' = HistHTTPException(500)
    /\ pc' = "failed"
    /\ UNCHANGED <<store, aux_vars, current_vars, resumen_vars, hist_request, hist_processor,
                   hist_fetch_log, hist_rows, daily_maxes>>

\* the service with both endpoints, over a store of morning ozone rows
NextHist ==
    \/ InsertHistRow
    \/ SetHistValue
    \/ HistRequestArrives
    \/ HistFetchReturns
    \/ HistFetchFails
    \/ RequestArrives
    \/ MatutinoReturns
    \/ VespertinoReturns
    \/ FetchFails

SpecHist == Init /\ [][NextHist]_vars


\* ------------------------------------------------------------------------
\* Dashboard: PostgresConnection and get_maximum_ozone_forecast_summary
\* (src/postgres_data_service.py)
\* ------------------------------------------------------------------------
\* ForecastDataService.forecast_id
ForecastId == 7

\* an empty DataFrame
EmptyFrame == <<>>

\* PostgresConnection.execute_query.  vivo: the SELECT 1 of is_connected
\* succeeds on an open connection; reconecta: reconnect() yields a usable
\* connection; ok: the query itself succeeds and returns the list frame.
\* Gives the frame returned, the connection afterwards, and whether the
\* store failed on the way.
execute_query(con, vivo, reconecta, ok, frame) ==
    LET connected == con = "open" /\ vivo
        after == IF connected THEN con ELSE (IF reconecta THEN "open" ELSE "none")
    IN  IF after # "open"
        THEN [df |-> EmptyFrame, conexion |-> after, failed |-> TRUE]
        ELSE IF ok
             THEN [df |-> frame, conexion |-> after, failed |-> FALSE]
             ELSE [df |-> EmptyFrame, conexion |-> after, failed |-> TRUE]

\* SELECT MAX(fecha) FROM forecast_otres WHERE id_tipo_pronostico = %s:
\* one row, whose ultima_fecha is NULL when no row matches
UltimaFecha(db) ==
    LET hit == {row \in db : row.tabla = "forecast_otres" /\ row.tipo = ForecastId}
    IN  IF hit = {} THEN << <<>> >>
        ELSE << <<(CHOOSE row \in hit : \A other \in hit : FechaLeq(other.fecha, row.fecha)).fecha>> >>

\* ForecastDataService.get_latest_forecast_date on the frame returned
get_latest_forecast_date(df) == IF df # EmptyFrame THEN df[1] ELSE <<>>

\* ForecastDataService.get_ozone_forecast without station: the rows of fecha,
\* ORDER BY id_est
OzoneForecast(db, fecha) ==
    LET hit == {row \in db : /\ row.tabla = "forecast_otres"
                             /\ row.fecha = fecha
                             /\ row.tipo = ForecastId}
        n == Cardinality(hit)
    IN  {rows \in [1..n -> hit] :
            /\ \A i, j \in 1..n : i # j => rows[i] # rows[j]
            /\ \A i, j \in 1..n : i < j => EstRank(rows[i].estacion) <= EstRank(rows[j].estacion)}

\* station_coords.get(max_station, {'name': max_station})['name']
StationName(station) ==
    CASE station = "MER" -> "MER - Merced"
      [] station = "UIZ" -> "UIZ - UAM Iztapalapa"
      [] OTHER -> station

\* the scan for the global maximum: rows in order, hour_p01..hour_p24, a
\* later value replaces the maximum only when it is greater
RECURSIVE MaximoGlobal(_, _, _, _)
MaximoGlobal(all_forecasts, i, hour_num, best) ==
    IF i > Len(all_forecasts) THEN best
    ELSE IF hour_num > HorasPronostico THEN MaximoGlobal(all_forecasts, i + 1, 1, best)
    ELSE LET cell == all_forecasts[i].vals[hour_num]
         IN  IF ~IsNull(cell) /\ (best.max_value = <<>> \/ cell[1] > best.max_value[1])
             THEN MaximoGlobal(all_forecasts, i, hour_num + 1,
                               [max_value |-> cell, max_station |-> <<all_forecasts[i].estacion>>,
                                max_hour_number |-> <<hour_num>>])
             ELSE MaximoGlobal(all_forecasts, i, hour_num + 1, best)

\* get_maximum_ozone_forecast_summary from the frame of get_ozone_forecast on
Resumir(fecha, all_forecasts) ==
    IF all_forecasts = EmptyFrame THEN ResumenNone
    ELSE LET m == MaximoGlobal(all_forecasts, 1, 1,
                               [max_value |-> <<>>, max_station |-> <<>>,
                                max_hour_number |-> <<>>])
         IN  IF m.max_value # <<>>
             THEN LET max_hour_datetime == AddHours(fecha, m.max_hour_number[1] - 1)
                  IN  [max_value |-> m.max_value,
                       station |-> m.max_station,
                       station_name |-> <<StationName(m.max_station[1])>>,
                       hour |-> <<HoraStr(max_hour_datetime)>>,
                       hour_number |-> m.max_hour_number]
             ELSE ResumenNone

ResumenFechas == {<<>>, <<[dia |-> RefDay, hora |-> 7, minuto |-> 0]>>}

\* the call up to its first query: the service is built and connects
ResumenStarts ==
    /\ pc = "idle"
    /\ \E fecha \in ResumenFechas, conecta \in BOOLEAN :
          /\ resumen_fecha' = fecha
          /\ conexion' = IF conecta THEN "open" ELSE "none"
          /\ pc' = IF fecha = <<>> THEN "resumen_latest" ELSE "resumen_forecast"
    /\ UNCHANGED <<store, aux_vars, current_vars, hist_vars, resumen, fallo_store>>

\* no fecha given: get_latest_forecast_date, and the all-None summary when
\* it gives no date
ResumenLatest ==
    /\ pc = "resumen_latest"
    /\ \E vivo \in BOOLEAN, reconecta \in BOOLEAN, ok \in BOOLEAN :
          LET q == execute_query(conexion, vivo, reconecta, ok, UltimaFecha(store))
              latest_date == get_latest_forecast_date(q.df)
          IN  /\ fallo_store' = (fallo_store \/ q.failed)
              /\ IF latest_date # <<>>
                 THEN /\ resumen_fecha' = latest_date
                      /\ conexion' = q.conexion
                      /\ pc' = "resumen_forecast"
                      /\ UNCHANGED resumen
                 ELSE /\ resumen' = ResumenNone
                      /\ conexion' = "none"
                      /\ pc' = "done"
                      /\ UNCHANGED resumen_fecha
    /\ UNCHANGED <<store, aux_vars, current_vars, hist_vars>>

\* get_ozone_forecast, the scan, the summary returned, and service.close()
ResumenForecast ==
    /\ pc = "resumen_forecast"
    /\ \E vivo \in BOOLEAN, reconecta \in BOOLEAN, ok \in BOOLEAN,
          frame \in OzoneForecast(store, resumen_fecha[1]) :
          LET q == execute_query(conexion, vivo, reconecta, ok, frame)
          IN  /\ fallo_store' = (fallo_store \/ q.failed)
              /\ resumen' = Resumir(resumen_fecha[1], q.df)
    /\ conexion' = "none"
    /\ pc' = "done"
    /\ UNCHANGED <<store, aux_vars, current_vars, hist_vars, resumen_fecha>>

NextResumen ==
    \/ InsertHistRow
    \/ SetHistValue
    \/ ResumenStarts
    \/ ResumenLatest
    \/ ResumenForecast

SpecResumen == Init /\ [][NextResumen]_vars


\* ------------------------------------------------------------------------
\* The service under concurrent requests: each request is a coroutine of the
\* event loop, suspended at its awaits on the store (src/api_service.py)
\* ------------------------------------------------------------------------
\* what a run holds for a station: no row, or a row with one forecast value
RunValues == {<<>>, <<8>>, <<16>>}

\* the offset a run of the explored store has its value at: the morning run
\* at 08:00 of the day, the afternoon run at 16:00 of the day after
RunOffset(hora) == IF hora = HoraMatutina THEN 1 ELSE 24

NingunaTareaEnCurso == \A t \in Tareas : tareas[t].pc = "idle"

\* the upstream pipeline writes a whole ozone run before the requests arrive
ServicioRun ==
    /\ NingunaTareaEnCurso
    /\ \E hora \in GenHours, contenido \in [Estaciones -> RunValues] :
          /\ \A row \in store : row.fecha.hora # hora
          /\ \E estacion \in Estaciones : contenido[estacion] # <<>>
          /\ store' = store \cup
                {[NewRow("forecast_otres", hora, 0, estacion)
                     EXCEPT !.vals[RunOffset(hora)] = contenido[estacion]] :
                 estacion \in {e \in Estaciones : contenido[e] # <<>>}}
    /\ UNCHANGED request_vars

\* the wall clock moves on while requests are served
Tick ==
    /\ \E i \in 1..(Len(HorasReloj) - 1) :
          /\ reloj = HorasReloj[i]
          /\ reloj' = HorasReloj[i + 1]
    /\ UNCHANGED <<store, resto_servicio, tareas>>

\* variant: processor is a module-level name, rebound by every request
processor_de_global(ts, t) ==
    LET activas == {u \in Tareas : ts[u].tipo = "actual"}
    IN  ts[CHOOSE u \in activas : \A w \in activas : w <= u].processor

\* the local name processor of generate_forecast_json in coroutine t
processor_de(ts, t) == ts[t].processor

\* generate_forecast_json up to its first await
TareaLlega(t) ==
    /\ tareas[t].pc = "idle"
    /\ \E ciudad \in Ciudades :
          tareas' = [tareas EXCEPT ![t] =
              [@ EXCEPT !.tipo = "actual",
                        !.request = [contaminante |-> "Ozono", ciudad |-> ciudad,
                                     fecha_datetime |-> RefDay],
                        !.hora_actual = reloj,
                        !.processor = ForecastProcessor("Ozono", ciudad, RefDay),
                        !.fetch_log = <<HoraMatutina>>,
                        !.pc = "await_matutino"]]
    /\ UNCHANGED <<store, resto_servicio, reloj>>

\* the morning fetch of coroutine t returns
TareaMatutinoReturns(t) ==
    /\ tareas[t].pc = "await_matutino"
    /\ \E rows \in fetch_forecast_by_hour(processor_de(tareas, t), store, HoraMatutina) :
          tareas' = [tareas EXCEPT ![t] =
              IF rows = <<>>
              THEN [@ EXCEPT !.response = HTTPException(processor_de(tareas, t), 404),
                             !.pc = "done"]
              ELSE LET dm_matutino == process_hourly_forecasts(rows)
                   IN  IF es_despues_4pm(@.hora_actual)
                       THEN [@ EXCEPT !.daily_max_matutino = dm_matutino,
                                      !.fetch_log = Append(@, HoraVespertina),
                                      !.pc = "await_vespertino"]
                       ELSE [@ EXCEPT !.daily_max_matutino = dm_matutino,
                                      !.response =
                                          Responder(processor_de(tareas, t),
                                                    tareas[t].request.fecha_datetime,
                                                    tareas[t].hora_actual,
                                                    dm_matutino, <<>>),
                                      !.pc = "done"]]
    /\ UNCHANGED <<store, resto_servicio, reloj>>

\* the afternoon fetch of coroutine t returns
TareaVespertinoReturns(t) ==
    /\ tareas[t].pc = "await_vespertino"
    /\ \E rows \in fetch_forecast_by_hour(processor_de(tareas, t), store, HoraVespertina) :
          LET dm_vespertino ==
                  IF rows # <<>> THEN process_hourly_forecasts(rows) ELSE <<>>
          IN  tareas' = [tareas EXCEPT ![t] =
                  [@ EXCEPT !.response =
                                Responder(processor_de(tareas, t),
                                          tareas[t].request.fecha_datetime,
                                          tareas[t].hora_actual,
                                          tareas[t].daily_max_matutino,
                                          dm_vespertino),
                            !.pc = "done"]]
    /\ UNCHANGED <<store, resto_servicio, reloj>>

\* get_historical_forecasts up to its await
TareaHistoricoLlega(t) ==
    /\ tareas[t].pc = "idle"
    /\ \E location_id \in Ciudades, enddate \in {Iso(NextDay(RefDay))} :
          LET startdate == Iso(RefDay)
              estado == Validar("comp6", startdate, enddate)
          IN  tareas' = [tareas EXCEPT ![t] =
                  IF estado # 0
                  THEN [@ EXCEPT !.tipo = "historico",
                                 !.hist_request = [component |-> "comp6",
                                                   location_id |-> location_id,
                                                   startdate |-> startdate,
                                                   enddate |-> enddate],
                                 !.hist_response = HistHTTPException(estado),
                                 !.pc = "done"]
                  ELSE [@ EXCEPT !.tipo = "historico",
                                 !.hist_request = [component |-> "comp6",
                                                   location_id |-> location_id,
                                                   startdate |-> startdate,
                                                   enddate |-> enddate],
                                 !.hist_processor =
                                     HistoricalForecastProcessor("comp6", location_id, 0),
                                 !.pc = "await_historico"]]
    /\ UNCHANGED <<store, resto_servicio, reloj>>

\* the historical fetch of coroutine t returns
TareaHistoricoReturns(t) ==
    /\ tareas[t].pc = "await_historico"
    /\ \E rows \in fetch_historical_data(tareas[t].hist_processor, store,
                                         tareas[t].hist_request.startdate,
                                         tareas[t].hist_request.enddate, HoraMatutina) :
          tareas' = [tareas EXCEPT ![t] =
              [@ EXCEPT !.hist_response =
                            HistResponder(tareas[t].hist_processor, rows,
                                          tareas[t].hist_request.location_id, 0),
                        !.pc = "done"]]
    /\ UNCHANGED <<store, resto_servicio, reloj>>

\* the fetch coroutine t waits for raises: its endpoint answers 500
TareaFetchFails(t) ==
    /\ tareas[t].pc \in {"await_matutino", "await_vespertino", "await_historico"}
    /\ tareas' = [tareas EXCEPT ![t] =
          IF @.tipo = "actual"
          THEN [@ EXCEPT !.response = HTTPException(processor_de(tareas, t), 500),
                         !.pc = "failed"]
          ELSE [@ EXCEPT !.hist_response = HistHTTPException(500), !.pc = "failed"]]
    /\ UNCHANGED <<store, resto_servicio, reloj>>

NextServicio ==
    \/ ServicioRun
    \/ Tick
    \/ \E t \in Tareas : TareaLlega(t)
    \/ \E t \in Tareas : TareaMatutinoReturns(t)
    \/ \E t \in Tareas : TareaVespertinoReturns(t)
    \/ \E t \in Tareas : TareaHistoricoLlega(t)
    \/ \E t \in Tareas : TareaHistoricoReturns(t)
    \/ \E t \in Tareas : TareaFetchFails(t)

SpecServicio == Init /\ [][NextServicio]_vars


\* ------------------------------------------------------------------------
\* process_hourly_forecasts on a single morning row of station MER whose 24
\* hourly values are all present, the greatest of them at hour_p10
\* ------------------------------------------------------------------------
EscenarioDia == <<2024, 6, 1>>
\* 95.0 in thousandths
EscenarioMaximo == 95 * 1000
EscenarioFondos == {0, 40000, 94990}
EscenarioSegundos == {50000, 94999}

EscenarioRow(fondo, k2, v2) ==
    [tabla |-> "forecast_otres",
     fecha |-> [dia |-> EscenarioDia, hora |-> HoraMatutina, minuto |-> 0],
     estacion |-> "MER",
     tipo |-> TipoPronostico,
     vals |-> [k \in 1..HorasPronostico |->
                  IF k = 10 THEN <<EscenarioMaximo>>
                  ELSE IF k = k2 THEN <<v2>> ELSE <<fondo>>]]

\* the generation run as the query returns it: the one row
EscenarioFetch ==
    /\ esc_rows = <<>>
    /\ \E fondo \in EscenarioFondos, k2 \in (1..HorasPronostico) \ {10},
          v2 \in EscenarioSegundos :
          esc_rows' = <<EscenarioRow(fondo, k2, v2)>>
    /\ UNCHANGED <<store, esc_out, resto_escenario>>

\* daily_max = processor.process_hourly_forecasts(rows)
EscenarioAgrega ==
    /\ esc_rows # <<>>
    /\ esc_out = <<>>
    /\ esc_out' = process_hourly_forecasts(esc_rows)
    /\ UNCHANGED <<store, esc_rows, resto_escenario>>

NextEscenario ==
    \/ EscenarioFetch
    \/ EscenarioAgrega

SpecEscenario == Init /\ [][NextEscenario]_vars


\* ------------------------------------------------------------------------
\* run_loop_forecast.py: the restart loop.  Time is in whole minutes from
\* the start of the hour the script is started in; schedule's hourly job
\* with at(":MM") is due at the first minute MM after it was scheduled or
\* last run, and run_pending runs it once the clock has reached that time.
\* ------------------------------------------------------------------------
MaxHorasBucle == 3
MinutoProgramado == 45
SleepMinutos == 1
StartMinutes == {0, 29, 30, 31, 44, 45, 46, 59}

\* the first time after t whose minute is mm
SiguienteEnMinuto(t, mm) ==
    IF t % 60 < mm THEN t - (t % 60) + mm ELSE t - (t % 60) + 60 + mm

\* restart_server: pkill, then Popen; an exception of Popen is logged
restart_server(t, programado, popen_ok) ==
    [servidor |-> IF popen_ok THEN "running" ELSE "none",
     reinicio |-> [minuto |-> t % 60, programado |-> programado,
                   detenido_antes |-> TRUE]]

\* main() up to the first sleep of its loop
LoopMain ==
    /\ loop_pc = "start"
    /\ \E m0 \in StartMinutes, popen_ok \in BOOLEAN :
          LET r == restart_server(m0, FALSE, popen_ok)
          IN  /\ ahora' = m0
              /\ servidor' = r.servidor
              /\ ultimo_reinicio' = r.reinicio
              /\ next_run' = SiguienteEnMinuto(m0, MinutoProgramado)
    /\ lanzamientos' = 1
    /\ loop_pc' = "sleeping"
    /\ UNCHANGED <<store, resto_loop>>

\* time.sleep(60) returns: run_pending, and the next sleep
LoopWake ==
    /\ loop_pc = "sleeping"
    /\ ahora + SleepMinutos < MaxHorasBucle * 60
    /\ ahora' = ahora + SleepMinutos
    /\ IF ahora' >= next_run
       THEN \E popen_ok \in BOOLEAN :
               LET r == restart_server(ahora', TRUE, popen_ok)
               IN  /\ servidor' = r.servidor
                   /\ ultimo_reinicio' = r.reinicio
                   /\ next_run' = SiguienteEnMinuto(ahora', MinutoProgramado)
                   /\ lanzamientos' = lanzamientos + 1
       ELSE UNCHANGED <<servidor, ultimo_reinicio, next_run, lanzamientos>>
    /\ UNCHANGED <<store, loop_pc, resto_loop>>

NextLoop ==
    \/ LoopMain
    \/ LoopWake

SpecLoop == Init /\ [][NextLoop]_vars


\* ------------------------------------------------------------------------
\* config.py: the global ozone forecast id and POLLUTANT_CONFIG
\* ------------------------------------------------------------------------
MaxLlamadas == 4
NewIds == {5, 6, 7, 8}

\* variant: any id is taken
set_ozone_forecast_id_sin_validar(id, new_id) == new_id

\* set_ozone_forecast_id: the value of OZONE_FORECAST_ID after the call
set_ozone_forecast_id(id, new_id) == IF new_id \in {6, 7} THEN new_id ELSE id

get_ozone_forecast_id == OZONE_FORECAST_ID

\* a caller changes the forecast id
SetOzoneForecastId ==
    /\ Len(llamadas) < MaxLlamadas
    /\ \E new_id \in NewIds :
          /\ OZONE_FORECAST_ID' = set_ozone_forecast_id(OZONE_FORECAST_ID, new_id)
          /\ llamadas' = Append(llamadas, new_id)
    /\ UNCHANGED <<store, POLLUTANT_CONFIG, resto_config>>

NextConfig == SetOzoneForecastId

SpecConfig == Init /\ [][NextConfig]_vars


\* ------------------------------------------------------------------------
\* The module-level query functions of postgres_data_service.py: each
\* builds a ForecastDataService, queries inside try, and closes in finally
\* ------------------------------------------------------------------------
Funciones ==
    {"get_ozone_forecast", "db_query_predhours", "db_query_max_predhour",
     "db_query_last_predhour", "get_last_available_date", "get_available_stations",
     "get_maximum_ozone_forecast_summary"}

\* the functions that catch Exception and return a default
ConExcept == {"db_query_max_predhour", "get_maximum_ozone_forecast_summary"}

\* the service methods a function calls inside try, in order; con_fecha: the
\* optional date argument is given
Plan(f, con_fecha) ==
    CASE f \in {"get_ozone_forecast", "db_query_predhours"} -> <<"get_ozone_forecast">>
      [] f \in {"db_query_max_predhour", "get_maximum_ozone_forecast_summary"} ->
            IF con_fecha THEN <<"get_ozone_forecast">>
            ELSE <<"get_latest_forecast_date", "get_ozone_forecast">>
      [] f = "db_query_last_predhour" -> <<"get_ozone_forecast", "get_latest_forecast_date">>
      [] f = "get_last_available_date" -> <<"get_latest_forecast_date">>
      [] OTHER -> <<"get_available_stations">>

\* variant: reconnect opens the new connection without closing the old one
abiertas_tras_query_sin_cerrar(con, vivo, reconecta, n) ==
    IF con = "open" /\ vivo THEN n
    ELSE n + (IF reconecta THEN 1 ELSE 0)

\* the psycopg2 connections open after the is_connected / reconnect part of
\* execute_query, n being open before: reconnect closes the one it holds
\* and _connect opens one when it succeeds
abiertas_tras_query(con, vivo, reconecta, n) ==
    IF con = "open" /\ vivo THEN n
    ELSE (IF con = "open" THEN n - 1 ELSE n) + (IF reconecta THEN 1 ELSE 0)

\* ForecastDataService.close -> PostgresConnection.close: the connections
\* open afterwards
abiertas_tras_close(con, n) == IF con = "open" THEN n - 1 ELSE n

\* the function is entered: service = ForecastDataService()
PgLlama ==
    /\ pg_pc = "idle"
    /\ \E f \in Funciones, con_fecha \in BOOLEAN, conecta \in BOOLEAN :
          /\ pg_funcion' = f
          /\ pg_plan' = Plan(f, con_fecha)
          /\ pg_conexion' = IF conecta THEN "open" ELSE "none"
          /\ pg_abiertas' = IF conecta THEN 1 ELSE 0
    /\ pg_pc' = "try"
    /\ UNCHANGED <<store, pg_cerrado, pg_log, resto_pg>>

\* the next service method runs its query; when it was the last one, or the
\* function returns early for want of a latest date, finally closes
PgConsulta ==
    /\ pg_pc = "try"
    /\ pg_plan # <<>>
    /\ \E vivo \in BOOLEAN, reconecta \in BOOLEAN, ok \in BOOLEAN,
          frame \in {EmptyFrame, <<"fila">>} :
          LET q == execute_query(pg_conexion, vivo, reconecta, ok, frame)
              n == abiertas_tras_query(pg_conexion, vivo, reconecta, pg_abiertas)
              sin_fecha == /\ pg_plan[1] = "get_latest_forecast_date"
                           /\ Len(pg_plan) > 1
                           /\ q.df = EmptyFrame
              termina == Len(pg_plan) = 1 \/ sin_fecha
          IN  /\ pg_log' = Append(pg_log, [consulta |-> pg_plan[1],
                                           tras_close |-> pg_cerrado,
                                           reconecto |-> ~(pg_conexion = "open" /\ vivo),
                                           fallo |-> q.failed,
                                           filas |-> q.df # EmptyFrame])
              /\ pg_plan' = Tail(pg_plan)
              /\ IF termina
                 THEN /\ pg_conexion' = "none"
                      /\ pg_abiertas' = abiertas_tras_close(q.conexion, n)
                      /\ pg_cerrado' = TRUE
                      /\ pg_pc' = "returned"
                 ELSE /\ pg_conexion' = q.conexion
                      /\ pg_abiertas' = n
                      /\ UNCHANGED <<pg_cerrado, pg_pc>>
    /\ UNCHANGED <<store, pg_funcion, resto_pg>>

\* an exception leaves the try body: finally closes, and the function
\* re-raises or, where it catches Exception, returns its default
PgExcepcion ==
    /\ pg_pc = "try"
    /\ pg_conexion' = "none"
    /\ pg_abiertas' = abiertas_tras_close(pg_conexion, pg_abiertas)
    /\ pg_cerrado' = TRUE
    /\ pg_pc' = IF pg_funcion \in ConExcept THEN "returned" ELSE "raised"
    /\ UNCHANGED <<store, pg_funcion, pg_plan, pg_log, resto_pg>>

NextPostgres ==
    \/ PgLlama
    \/ PgConsulta
    \/ PgExcepcion

SpecPostgres == Init /\ [][NextPostgres]_vars


\* ------------------------------------------------------------------------
\* Reference notions the properties are stated with
\* ------------------------------------------------------------------------
\* days from 1 January of year 1 of the calendar window to d
RECURSIVE DaysBeforeMonth(_, _)
DaysBeforeMonth(y, m) == IF m = 1 THEN 0 ELSE DaysInMonth(y, m - 1) + DaysBeforeMonth(y, m - 1)

RECURSIVE DaysBeforeYear(_)
DaysBeforeYear(y) ==
    IF y <= 2024 THEN 0 ELSE (IF IsLeap(y - 1) THEN 366 ELSE 365) + DaysBeforeYear(y - 1)

DayNumber(d) == DaysBeforeYear(d[1]) + DaysBeforeMonth(d[1], d[2]) + d[3] - 1

\* hours from the start of the calendar window to the full hour of ts
HourNumber(ts) == DayNumber(ts.dia) * 24 + ts.hora

\* the two aggregations of a request: input rows and output mapping
Aggregations ==
    {[rows |-> rows_matutino, out |-> daily_max_matutino],
     [rows |-> rows_vespertino, out |-> daily_max_vespertino]}

\* the non-null hourly values of a row list: row index i, offset k, value,
\* station, and the absolute hour abs = T + k of the value
Cells(rows) ==
    {[i |-> c[1], k |-> c[2],
      valor |-> rows[c[1]].vals[c[2]][1],
      station |-> IF rows[c[1]].tabla = "forecast_otres" THEN rows[c[1]].estacion ELSE "CDMX",
      abs |-> HourNumber(rows[c[1]].fecha) + c[2],
      minuto |-> rows[c[1]].fecha.minuto] :
        c \in {x \in (1..Len(rows)) \X (1..24) : rows[x[1]].vals[x[2]] # <<>>}}

OnDay(cells, d) == LET n == DayNumber(d) IN {c \in cells : c.abs \div 24 = n}
Clock(c) == <<c.abs % 24, c.minuto>>

\* row-then-offset order
CellBefore(a, b) == a.i < b.i \/ (a.i = b.i /\ a.k < b.k)

RECURSIVE SumSamples(_)
SumSamples(out) ==
    IF out = <<>> THEN 0 ELSE out[1].reg.num_horas_evaluadas + SumSamples(Tail(out))

\* ------------------------------------------------------------------------
\* Properties
\* ------------------------------------------------------------------------

\* C1: every non-null hourly value of the input rows lands in exactly one
\* day bucket of the output, so the num_horas_evaluadas of all output days
\* add up to the number of non-null hourly values of the input rows.
C1_BucketingComplete ==
    \A a \in Aggregations :
        LET cells == Cells(a.rows)
            days == [i \in 1..Len(a.out) |-> DayNumber(a.out[i].dia)]
        IN  /\ SumSamples(a.out) = Cardinality(cells)
            /\ \A c \in cells :
                  Cardinality({i \in 1..Len(a.out) : days[i] = c.abs \div 24}) = 1

C1_Witness ==
    /\ pc = "done"
    /\ Len(rows_matutino) = 2
    /\ Len(daily_max_matutino) = 2
    /\ Cardinality(Cells(rows_matutino)) = 2

\* C2: the value reported for a day is the maximum of the day's bucket: no
\* observation of that day is greater, and an observation of that day has
\* that value, the reported station and the reported HH:MM.
C2_MaxCorrect ==
    \A a \in Aggregations :
        LET cells == Cells(a.rows)
        IN  \A i \in 1..Len(a.out) :
               LET e == a.out[i]
                   bucket == OnDay(cells, e.dia)
               IN  /\ \A c \in bucket : c.valor <= e.reg.valor
                   /\ \E c \in bucket :
                         /\ c.valor = e.reg.valor
                         /\ c.station = e.reg.id_est
                         /\ Clock(c) = e.reg.hora

C2_Witness ==
    /\ pc = "done"
    /\ \E i \in 1..Len(daily_max_matutino) :
          LET bucket == OnDay(Cells(rows_matutino), daily_max_matutino[i].dia)
          IN  \E c1, c2 \in bucket : CellBefore(c1, c2) /\ c1.valor < c2.valor

\* C3: when several observations of a day share the maximum, the reported
\* station and hour are those of the first of them in row-then-offset
\* order; that cell is unique, so the ordered rows alone fix the winner and
\* aggregating them again reports the same one.
C3_FirstWinsTies ==
    \A a \in Aggregations :
        LET cells == Cells(a.rows)
        IN  /\ \A i \in 1..Len(a.out) :
                  LET e == a.out[i]
                      top == {c \in OnDay(cells, e.dia) : c.valor = e.reg.valor}
                  IN  \E c \in top :
                         /\ \A other \in top : other = c \/ CellBefore(c, other)
                         /\ c.station = e.reg.id_est
                         /\ Clock(c) = e.reg.hora

C3_Witness ==
    /\ pc = "done"
    /\ \E i \in 1..Len(daily_max_matutino) :
          LET e == daily_max_matutino[i]
              top == {c \in OnDay(Cells(rows_matutino), e.dia) : c.valor = e.reg.valor}
          IN  \E c1, c2 \in top :
                 /\ c1.i < c2.i
                 /\ c1.station # c2.station
                 /\ Clock(c1) # Clock(c2)

\* C4: hourly value k of a row generated at T is attributed to T + k hours
\* (day = date of T + k, hour = clock hour of T + k, minutes of T kept), and
\* the 24 offsets of a row map to 24 distinct timestamps.  Rows reach an
\* aggregation only from the store, and the store changes only while no
\* request is in flight, so the timestamp arithmetic is examined there.
C4_OffsetResolution ==
    /\ pc = "idle" =>
          \A T \in {r.fecha : r \in store} :
             LET base == HourNumber(T)
                 resolved == [k \in 1..24 |-> AddHours(T, k)]
             IN  /\ \A k \in 1..24 :
                       /\ HourNumber(resolved[k]) = base + k
                       /\ resolved[k].minuto = T.minuto
                       /\ resolved[k].hora \in 0..23
                 /\ Cardinality({resolved[k] : k \in 1..24}) = 24
    /\ \A a \in Aggregations :
          LET cells == Cells(a.rows)
              days == [i \in 1..Len(a.out) |-> DayNumber(a.out[i].dia)]
          IN  \A c \in cells :
                 \E i \in 1..Len(a.out) :
                    /\ days[i] = c.abs \div 24
                    /\ \E j \in 1..Len(a.out[i].reg.horas_disponibles) :
                          a.out[i].reg.horas_disponibles[j] = c.abs % 24
                    /\ OnDay(cells, a.out[i].dia) = {c} => a.out[i].reg.hora = Clock(c)

C4_Witness ==
    /\ pc = "done"
    /\ \E c1, c2 \in Cells(rows_matutino) : c1.i = c2.i /\ c1.k = 1 /\ c2.k = 17
    /\ Keys(daily_max_matutino) = {<<2024, 2, 29>>, <<2024, 3, 1>>}

\* C5: the days of the output mapping are exactly the days that received a
\* non-null observation: no rows give no days, an all-null row adds nothing,
\* a null hour is skipped and not counted as zero, and every reported value
\* is a value observed that day, never a placeholder.
C5_KeysAreObservedDays ==
    /\ process_hourly_forecasts(<<>>) = <<>>
    /\ \A a \in Aggregations :
          LET cells == Cells(a.rows)
              days == [i \in 1..Len(a.out) |-> DayNumber(a.out[i].dia)]
          IN  /\ a.rows = <<>> => a.out = <<>>
              /\ Cardinality(Keys(a.out)) = Len(a.out)
              /\ \A c \in cells : \E i \in 1..Len(a.out) : days[i] = c.abs \div 24
              /\ \A i \in 1..Len(a.out) :
                    LET bucket == OnDay(cells, a.out[i].dia)
                    IN  /\ bucket # {}
                        /\ a.out[i].reg.num_horas_evaluadas = Cardinality(bucket)
                        /\ \E c \in bucket : c.valor = a.out[i].reg.valor

C5_Witness ==
    /\ pc = "done"
    /\ Len(rows_matutino) = 2
    /\ \E r \in 1..2 : \A k \in 1..24 : rows_matutino[r].vals[k] = <<>>
    /\ Len(daily_max_matutino) = 1
    /\ daily_max_matutino[1].reg.valor = 0
    /\ daily_max_matutino[1].reg.num_horas_evaluadas = 1

\* the request's reference day, the day after it, and the days of the response
ReferenceDay == request.fecha_datetime
DayAfter == <<2024, 3, 1>>
OutputDays == {response.pronos[i].dia : i \in 1..Len(response.pronos)}

\* the afternoon aggregation has the day after, with an observation at 16:00 or later
AfternoonCoversDayAfter ==
    /\ \E i \in 1..Len(daily_max_vespertino) : daily_max_vespertino[i].dia = DayAfter
    /\ \E c \in OnDay(Cells(rows_vespertino), DayAfter) : c.abs % 24 >= 16

AfternoonHasDayAfter ==
    \E i \in 1..Len(daily_max_vespertino) : daily_max_vespertino[i].dia = DayAfter

\* a response entry carries the station, the hour and the rounded value of reg
EntryOf(item, reg) ==
    /\ item.id_est = reg.id_est
    /\ item.hora = reg.hora
    /\ item.valor * 10 - reg.valor \in -5..4

\* C6: a request whose morning run was fetched and yields no DailyMaximum
\* entry ends with the not-found error, whatever the clock hour and the
\* afternoon run.
C6_EmptyMorningIsNotFound ==
    (pc = "done" /\ daily_max_matutino = <<>>) => response.status = 404

\* C7: the afternoon (16:00) run is fetched only when the clock hour read by
\* the request is at least 16; a request served before 16:00 issues no
\* afternoon fetch, and the morning (07:00) fetch is always the first one.
C7_AfternoonFetchGated ==
    /\ fetch_log # <<>> => fetch_log[1] = 7
    /\ \A i \in 1..Len(fetch_log) : fetch_log[i] = 16 => (hora_actual >= 16 /\ i = 2)
    /\ (pc # "idle" /\ hora_actual < 16) =>
          (fetch_log = <<7>> /\ rows_vespertino = <<>> /\ daily_max_vespertino = <<>>)

C7_Witness ==
    /\ pc = "done"
    /\ hora_actual = 15
    /\ response.status = 200
    /\ fetch_log = <<7>>
    /\ \E row \in store : Matches(processor, 16, row) /\ row.vals[24] # <<>>

\* C8: a request served before 16:00 never reports the day after the
\* reference day, whatever the store holds for the afternoon run; it
\* reports the reference day alone, exactly when the morning aggregation
\* has an entry for it.
C8_NoNextDayBefore16 ==
    (pc = "done" /\ hora_actual < 16) =>
        /\ DayAfter \notin OutputDays
        /\ response.status = 200 => (OutputDays = {ReferenceDay} /\ Len(response.pronos) = 1)
        /\ response.status = 200 <=>
              \E i \in 1..Len(daily_max_matutino) : daily_max_matutino[i].dia = ReferenceDay

C8_Witness ==
    /\ pc = "done"
    /\ hora_actual = 15
    /\ response.status = 200
    /\ OutputDays = {ReferenceDay}
    /\ \E row \in store : Matches(processor, 16, row) /\ row.vals[24] # <<>>

\* C9 as claimed: served at 16:00 or later, for any pollutant, the response
\* reports the day after iff the afternoon aggregation has that day with an
\* observation at 16:00 or later.
C9_NextDayIffCoverage ==
    (pc = "done" /\ hora_actual >= 16) => (DayAfter \in OutputDays <=> AfternoonCoversDayAfter)

\* C9 amended: served at 16:00 or later, for ozone the response reports the
\* day after iff the afternoon aggregation has that day with an observation
\* at 16:00 or later, and a failed coverage test omits the day without
\* error; for any other pollutant it reports the day after iff the
\* afternoon aggregation has that day, with no coverage test.
C9_NextDayByPollutant ==
    (pc = "done" /\ hora_actual >= 16) =>
        IF Lower(request.contaminante) = "ozono"
        THEN /\ DayAfter \in OutputDays <=> AfternoonCoversDayAfter
             /\ (AfternoonHasDayAfter /\ ~AfternoonCoversDayAfter) => response.status = 200
        ELSE DayAfter \in OutputDays <=> AfternoonHasDayAfter

C9_Witness ==
    /\ pc = "done"
    /\ hora_actual = 16
    /\ Lower(request.contaminante) = "ozono"
    /\ AfternoonHasDayAfter
    /\ ~AfternoonCoversDayAfter
    /\ response.status = 200
    /\ OutputDays = {ReferenceDay}

\* C10: the response's entry for the reference day is the morning
\* aggregation's entry for it, never the afternoon run's; its entry for the
\* day after is the afternoon aggregation's entry, never the morning run's.
C10_EntrySources ==
    (pc = "done" /\ response.status = 200) =>
        \A i \in 1..Len(response.pronos) :
            LET item == response.pronos[i]
            IN  /\ item.dia \in {ReferenceDay, DayAfter}
                /\ item.dia = ReferenceDay =>
                      \E j \in 1..Len(daily_max_matutino) :
                         /\ daily_max_matutino[j].dia = ReferenceDay
                         /\ EntryOf(item, daily_max_matutino[j].reg)
                /\ item.dia = DayAfter =>
                      \E j \in 1..Len(daily_max_vespertino) :
                         /\ daily_max_vespertino[j].dia = DayAfter
                         /\ EntryOf(item, daily_max_vespertino[j].reg)

C10_Witness ==
    /\ pc = "done"
    /\ response.status = 200
    /\ ReferenceDay \in OutputDays
    /\ \E j \in 1..Len(daily_max_vespertino), k \in 1..Len(daily_max_matutino) :
          /\ daily_max_vespertino[j].dia = ReferenceDay
          /\ daily_max_matutino[k].dia = ReferenceDay
          /\ daily_max_vespertino[j].reg.valor > daily_max_matutino[k].reg.valor

\* the other half of C10 happens too: the day after is reported from the
\* afternoon run while the morning run has a different entry for that day
C10_WitnessDayAfter ==
    /\ pc = "done"
    /\ response.status = 200
    /\ DayAfter \in OutputDays
    /\ \E j \in 1..Len(daily_max_vespertino), k \in 1..Len(daily_max_matutino) :
          /\ daily_max_vespertino[j].dia = DayAfter
          /\ daily_max_matutino[k].dia = DayAfter
          /\ daily_max_vespertino[j].reg.valor # daily_max_matutino[k].reg.valor

\* C11: a current-forecast response lists at most two entries, their days
\* are the reference day or the day after it, no day appears twice and the
\* entries are in ascending calendar-day order.
C11_AtMostTwoOrdered ==
    pc = "done" =>
        /\ Len(response.pronos) <= 2
        /\ \A i \in 1..Len(response.pronos) :
              response.pronos[i].dia \in {ReferenceDay, NextDay(ReferenceDay)}
        /\ \A i, j \in 1..Len(response.pronos) :
              i < j => DayNumber(response.pronos[i].dia) < DayNumber(response.pronos[j].dia)

C11_Witness ==
    /\ pc = "done"
    /\ Lower(request.contaminante) # "ozono"
    /\ Len(response.pronos) = 2
    /\ response.pronos[1].dia = ReferenceDay
    /\ response.pronos[2].dia = DayAfter

\* ------------------------------------------------------------------------
\* Properties of the historical endpoint
\* ------------------------------------------------------------------------
\* the historical request has been answered after its fetch returned
HistAnswered == pc = "done" /\ hist_fetch_log # <<>>

\* generation day of the row a cell belongs to
GenDay(c) == hist_rows[c.i].fecha.dia

\* the cells of the fetched rows generated on day d
GeneratedOn(cells, d) == {c \in cells : GenDay(c) = d}

\* C12: calculate_daily_maximums counts every non-null offset of a row under
\* the row's generation day, also the offsets that pass midnight, whereas
\* process_hourly_forecasts on the same rows counts offset k under the day
\* of generation time + k hours.
C12_GenerationDayGrouping ==
    (HistAnswered /\ hist_rows # <<>>) =>
        LET cells == Cells(hist_rows)
            current == process_hourly_forecasts(hist_rows)
        IN  /\ \A c \in cells :
                  /\ \E i \in 1..Len(daily_maxes) :
                        /\ daily_maxes[i].dia = GenDay(c)
                        /\ daily_maxes[i].reg.max_valor >= c.valor
                  /\ \E j \in 1..Len(current) :
                        /\ DayNumber(current[j].dia) = c.abs \div 24
                        /\ current[j].reg.valor >= c.valor
            /\ \A i \in 1..Len(daily_maxes) :
                  daily_maxes[i].reg.num_valores =
                      Cardinality(GeneratedOn(cells, daily_maxes[i].dia))
            /\ \A j \in 1..Len(current) :
                  current[j].reg.num_horas_evaluadas = Cardinality(OnDay(cells, current[j].dia))

C12_Witness ==
    /\ HistAnswered
    /\ Len(hist_rows) = 1
    /\ hist_rows[1].fecha = [dia |-> RefDay, hora |-> 7, minuto |-> 0]
    /\ hist_rows[1].vals[1] = <<0>>
    /\ hist_rows[1].vals[17] = <<16>>
    /\ Keys(daily_maxes) = {RefDay}
    /\ daily_maxes[1].reg.max_valor = 16
    /\ daily_maxes[1].reg.fecha_pron = DayAfter
    /\ Keys(process_hourly_forecasts(hist_rows)) = {RefDay, DayAfter}

\* C13: the series of a successful historical response has exactly one item
\* per generation day with a non-null hourly value among the fetched rows,
\* the item carries the greatest value of all offsets of all rows of that
\* generation day (to two decimals), the items are in ascending
\* generation-day order, and count is the number of items.
C13_HistoricalSeries ==
    HistAnswered =>
        LET cells == Cells(hist_rows)
            gens == {GenDay(c) : c \in cells}
            data == hist_response.data
        IN  /\ hist_response.status = 200 <=> gens # {}
            /\ hist_response.status = 200 =>
                  /\ {data[i].forecast_date : i \in 1..Len(data)} = gens
                  /\ Len(data) = Cardinality(gens)
                  /\ hist_response.count = Len(data)
                  /\ \A i, j \in 1..Len(data) :
                        i < j => DayNumber(data[i].forecast_date) < DayNumber(data[j].forecast_date)
                  /\ \A i \in 1..Len(data) :
                        /\ data[i].forecast_generation_date = data[i].forecast_date
                        /\ \E c \in GeneratedOn(cells, data[i].forecast_date) :
                              /\ \A other \in GeneratedOn(cells, data[i].forecast_date) :
                                    other.valor <= c.valor
                              /\ data[i].predicted_value * 10 - c.valor \in -5..4

C13_Witness ==
    /\ HistAnswered
    /\ hist_response.status = 200
    /\ Len(hist_response.data) = 1
    /\ \E c1, c2 \in Cells(hist_rows) :
          /\ c1.i < c2.i
          /\ GenDay(c1) = GenDay(c2)
          /\ c1.station # c2.station
          /\ c1.valor > c2.valor

\* the series also happens with two generation days, one of them fetched
\* with values that pass midnight
C13_WitnessTwoDays ==
    /\ HistAnswered
    /\ hist_response.status = 200
    /\ Len(hist_response.data) = 2
    /\ \E c \in Cells(hist_rows) : GenDay(c) = RefDay /\ c.k = 17

\* C14: for start and end days that pass the date-format check (and a
\* supported component), the request is rejected with the validation error
\* exactly when the start day is later than the end day as calendar dates.
C14_RejectedIffStartAfterEnd ==
    (/\ pc \in {"done", "failed"}
     /\ hist_request # NoHistRequest
     /\ strptime(hist_request.startdate) # <<>>
     /\ strptime(hist_request.enddate) # <<>>
     /\ Lower(hist_request.component) \in DOMAIN COMPONENT_MODEL_MAP) =>
        (hist_response.status = 400 <=>
            DayNumber(strptime(hist_request.startdate)[1]) >
            DayNumber(strptime(hist_request.enddate)[1]))

\* C15: a historical request that ends in the validation error has issued
\* no fetch, and a fetch is issued only by a request that passed the date
\* format test, the date order test and the component test.
C15_ValidationBeforeFetch ==
    /\ (pc = "done" /\ hist_response.status = 400) =>
          (hist_fetch_log = <<>> /\ hist_rows = <<>> /\ daily_maxes = <<>>)
    /\ hist_fetch_log # <<>> =>
          /\ strptime(hist_request.startdate) # <<>>
          /\ strptime(hist_request.enddate) # <<>>
          /\ ~StrGreater(hist_request.startdate, hist_request.enddate)
          /\ Lower(hist_request.component) \in DOMAIN COMPONENT_MODEL_MAP

C15_Witness ==
    /\ pc = "done"
    /\ hist_response.status = 400
    /\ hist_fetch_log = <<>>
    /\ hist_request.component = "comp9"
    /\ hist_request.startdate = Iso(RefDay)
    /\ hist_request.enddate = Iso(DayAfter)
    /\ \E row \in store : row.fecha.dia = RefDay /\ row.vals[1] # <<>>

ClavesContaminante ==
    {"ozono", "co", "no", "nodos", "nox", "pmco", "pm10", "pm25", "sodos"}

\* C16: a current-forecast request whose pollutant key is not a recognized
\* key is rejected with the validation error, and no fetch is issued for it.
C16_UnknownPollutantRejected ==
    (request # NoRequest /\ Lower(request.contaminante) \notin ClavesContaminante) =>
        (fetch_log = <<>> /\ response.status = 400)

\* C18: a current-forecast request whose morning or afternoon fetch fails
\* ends with the error and no entry, and a response with entries reflects
\* every fetch the request had to make: the morning rows of the store and,
\* from 16:00 on, the afternoon rows of the store.
C18_NoPartialSuccess ==
    /\ pc = "failed" => (response.status = 500 /\ response.pronos = <<>>)
    /\ (pc = "done" /\ response.status = 200) =>
          /\ rows_matutino \in fetch_forecast_by_hour(processor, store, HoraMatutina)
          /\ hora_actual >= 16 =>
                /\ fetch_log = <<7, 16>>
                /\ rows_vespertino \in fetch_forecast_by_hour(processor, store, HoraVespertina)

C18_Witness ==
    /\ pc = "failed"
    /\ fetch_log = <<7, 16>>
    /\ response.status = 500
    /\ \E i \in 1..Len(daily_max_matutino) : daily_max_matutino[i].dia = ReferenceDay
    /\ \E row \in store : Matches(processor, 16, row) /\ row.vals[24] # <<>>

\* C20: no fetch is retried: a current-forecast request issues at most one
\* morning fetch and after it at most one afternoon fetch, a historical
\* request that passes validation issues exactly one fetch, and a request
\* that failed has issued each of its fetches once.
C20_NoRetry ==
    /\ fetch_log \in {<<>>, <<7>>, <<7, 16>>}
    /\ Len(hist_fetch_log) <= 1
    /\ (hist_request # NoHistRequest /\
        Validar(hist_request.component, hist_request.startdate, hist_request.enddate) = 0) =>
          Len(hist_fetch_log) = 1
    /\ pc = "failed" => Len(fetch_log) + Len(hist_fetch_log) \in 1..2

C20_Witness ==
    /\ pc = "failed"
    /\ hist_fetch_log =
          <<[startdate |-> Iso(RefDay), enddate |-> Iso(DayAfter), hora_generacion |-> 7]>>
    /\ hist_response.status = 500
    /\ \E row \in store : row.fecha.dia = RefDay /\ row.vals[1] # <<>>

\* the current-forecast request also fails on its second fetch, issued once
C20_WitnessVespertino ==
    /\ pc = "failed"
    /\ fetch_log = <<7, 16>>
    /\ hist_fetch_log = <<>>

\* C19: a store failure is never downgraded to an empty or default result:
\* a summary call during which the connection could not be established or a
\* query raised does not return a summary, it aborts with the error.
C19_StoreFailureAborts ==
    fallo_store => pc # "done"

\* the responses a current-forecast request with the parameters and clock
\* reading of tarea produces when it is served alone against the store
SoloActual(tarea) ==
    LET self == ForecastProcessor(tarea.request.contaminante, tarea.request.ciudad,
                                  tarea.request.fecha_datetime)
    IN  {IF rows_m = <<>> THEN HTTPException(self, 404)
         ELSE Responder(self, tarea.request.fecha_datetime, tarea.hora_actual,
                        process_hourly_forecasts(rows_m),
                        IF tarea.hora_actual >= 16 /\ rows_v # <<>>
                        THEN process_hourly_forecasts(rows_v) ELSE <<>>) :
            <<rows_m, rows_v>> \in fetch_forecast_by_hour(self, store, HoraMatutina)
                                   \X fetch_forecast_by_hour(self, store, HoraVespertina)}

\* the responses a historical request with the parameters of tarea produces
\* when it is served alone against the store
SoloHistorico(tarea) ==
    LET req == tarea.hist_request
        self == HistoricalForecastProcessor(req.component, req.location_id, 0)
    IN  IF Validar(req.component, req.startdate, req.enddate) # 0
        THEN {HistHTTPException(Validar(req.component, req.startdate, req.enddate))}
        ELSE {HistResponder(self, rows, req.location_id, 0) :
                 rows \in fetch_historical_data(self, store, req.startdate, req.enddate,
                                                HoraMatutina)}

\* C21: requests served concurrently do not interfere: whatever the
\* interleaving at the store awaits, the response of every finished request
\* is one the same request produces when served alone against the same store.
C21_NoInterference ==
    \A t \in Tareas :
        tareas[t].pc = "done" =>
            /\ tareas[t].tipo = "actual" => tareas[t].response \in SoloActual(tareas[t])
            /\ tareas[t].tipo = "historico" =>
                  tareas[t].hist_response \in SoloHistorico(tareas[t])

\* a request that arrived after 16:00 for one station has been answered with
\* both days while an earlier request for the whole city is still suspended
\* on its morning fetch
C21_Witness ==
    /\ tareas[1].pc = "await_matutino"
    /\ tareas[1].hora_actual = 15
    /\ tareas[1].request.ciudad = "cdmx"
    /\ tareas[2].pc = "done"
    /\ tareas[2].hora_actual = 16
    /\ tareas[2].request.ciudad = "MER"
    /\ tareas[2].response.status = 200
    /\ Len(tareas[2].response.pronos) = 2
    /\ \E row \in store : row.estacion = "UIZ"

\* the DailyMaximum of the scenario's calendar day, once aggregated
EscenarioMaximoDelDia == Lookup(esc_out, EscenarioDia)

\* C22 as stated: for the single row generated at 2024-06-01 07:00:00 for
\* station MER with all 24 values present and the greatest, 95.0, at offset
\* 10, the aggregator yields for 2024-06-01 the value 95.0, station MER, hour
\* 17:00 and a sample count of 24.
C22_ScenarioSampleCount24 ==
    esc_out # <<>> =>
        /\ HasKey(esc_out, EscenarioDia)
        /\ EscenarioMaximoDelDia.valor = EscenarioMaximo
        /\ EscenarioMaximoDelDia.id_est = "MER"
        /\ EscenarioMaximoDelDia.hora = <<17, 0>>
        /\ EscenarioMaximoDelDia.num_horas_evaluadas = 24

\* C22 amended: the same row yields for 2024-06-01 the value 95.0, station
\* MER, hour 17:00 and a sample count of 16, the offsets 1..16 that reach
\* 08:00..23:00 of that day; the offsets 17..24 make the bucket of
\* 2024-06-02 with its 8 samples.
C22_ScenarioSampleCount16 ==
    esc_out # <<>> =>
        /\ HasKey(esc_out, EscenarioDia)
        /\ EscenarioMaximoDelDia.valor = EscenarioMaximo
        /\ EscenarioMaximoDelDia.id_est = "MER"
        /\ EscenarioMaximoDelDia.hora = <<17, 0>>
        /\ EscenarioMaximoDelDia.num_horas_evaluadas = 16
        /\ Keys(esc_out) = {EscenarioDia, NextDay(EscenarioDia)}
        /\ Lookup(esc_out, NextDay(EscenarioDia)).num_horas_evaluadas = 8

\* the row has been aggregated, its second greatest value lying one
\* thousandth under the maximum on the following day
C22_Witness ==
    /\ Len(esc_rows) = 1
    /\ \A k \in 1..HorasPronostico : esc_rows[1].vals[k] # <<>>
    /\ esc_rows[1].vals[10] = <<EscenarioMaximo>>
    /\ esc_rows[1].vals[20] = <<94999>>
    /\ esc_out # <<>>
    /\ EscenarioMaximoDelDia.valor = EscenarioMaximo

\* C23: every component resolves offset k to generation timestamp + k hours:
\* when the maximum-ozone summary finds the maximum at hour_number k, the
\* hour it reports is the clock time of fecha + k hours, the hour the
\* current-forecast aggregator reports for the same value of the same row.
C23_SummaryHourIsOffsetHour ==
    (pc = "done" /\ resumen.hour # <<>>) =>
        /\ resumen.hour[1] = HoraStr(AddHours(resumen_fecha[1], resumen.hour_number[1]))
        /\ \A row \in store :
              (row.fecha = resumen_fecha[1] /\ row.estacion = resumen.station[1]) =>
                  resumen.hour[1] = Observacion(row, resumen.hour_number[1]).hora

\* C24: the afternoon run is optional: a request served at 16:00 or later
\* whose afternoon fetch succeeds with zero rows does not fail on that
\* account; it is answered from the morning run alone, with the one entry
\* of the reference day, and is not-found only when the morning run has no
\* value on the reference day.
C24_AfternoonOptional ==
    (pc = "done" /\ hora_actual >= 16 /\ fetch_log = <<7, 16>> /\ rows_vespertino = <<>>) =>
        IF \E c \in Cells(rows_matutino) : c.abs \div 24 = DayNumber(ReferenceDay)
        THEN /\ response.status = 200
             /\ Len(response.pronos) = 1
             /\ response.pronos[1] =
                   PronosticoItem(ReferenceDay, Lookup(daily_max_matutino, ReferenceDay))
        ELSE response.status = 404

C24_Witness ==
    /\ pc = "done"
    /\ hora_actual = 16
    /\ fetch_log = <<7, 16>>
    /\ rows_matutino # <<>>
    /\ rows_vespertino = <<>>
    /\ response.status = 200
    /\ OutputDays = {ReferenceDay}

\* C25: the restart loop launches the server once at start-up and from then
\* on restarts it once every hour at minute 30, stopping the running server
\* before it starts the new one.
C25_RestartAtHalfHour ==
    /\ loop_pc = "sleeping" => lanzamientos >= 1
    /\ lanzamientos >= 1 => ultimo_reinicio.detenido_antes
    /\ ultimo_reinicio.programado => ultimo_reinicio.minuto = 30

\* C26: the O3 entry of POLLUTANT_CONFIG uses the configurable global
\* forecast id: after any sequence of set_ozone_forecast_id calls,
\* POLLUTANT_CONFIG['O3']['forecast_id'] equals get_ozone_forecast_id().
C26_ConfigFollowsGlobal ==
    POLLUTANT_CONFIG.O3.forecast_id = get_ozone_forecast_id

\* the valid arguments among the calls so far
LlamadasValidas == SelectSeq(llamadas, LAMBDA n : n = 6 \/ n = 7)

\* C27: set_ozone_forecast_id(n) replaces the global forecast id with n
\* when n is 6 or 7 and leaves it unchanged otherwise, so after any sequence
\* of calls get_ozone_forecast_id() is 6 or 7 and is the most recent valid
\* argument, 7 if there was none.
C27_LastValidId ==
    /\ get_ozone_forecast_id \in {6, 7}
    /\ get_ozone_forecast_id =
          IF LlamadasValidas = <<>> THEN 7 ELSE LlamadasValidas[Len(LlamadasValidas)]

\* the id was set to 6 and two invalid calls followed
C27_Witness ==
    /\ Len(llamadas) = 3
    /\ llamadas[1] = 6
    /\ llamadas[2] = 8
    /\ llamadas[3] = 5
    /\ get_ozone_forecast_id = 6

\* C28: every successful current-forecast response carries at least one
\* forecast entry: when the series left after reconciliation and the ozone
\* day filter is empty, the request fails with not-found instead of
\* returning an empty pronos list.
C28_SuccessHasEntries ==
    (pc = "done" /\ response.status = 200) => response.pronos # <<>>

\* a 200 response without entries although the morning aggregation is not
\* empty: the morning run has values on the day after only, and the day
\* after of the afternoon run is dropped by the ozone day filter
C28_EmptySuccess ==
    /\ pc = "done"
    /\ response.status = 200
    /\ response.pronos = <<>>
    /\ daily_max_matutino # <<>>
    /\ AfternoonHasDayAfter

\* the days of the entries of a response
DiasDe(resp) == {resp.pronos[i].dia : i \in 1..Len(resp.pronos)}

\* the store holds an afternoon row the processor's query matches
HayVespertino(self) == \E row \in store : Matches(self, HoraVespertina, row)

\* C29: within one current-forecast request the 16:00 gate is evaluated from
\* the single clock reading taken before the first fetch: the afternoon run
\* is fetched exactly when that reading is 16 or later, and the day after is
\* merged only then, whatever the wall clock shows when the fetches return.
C29_SingleClockReading ==
    \A t \in Tareas :
        LET tarea == tareas[t]
        IN  tarea.tipo = "actual" =>
              /\ tarea.pc = "await_vespertino" => tarea.hora_actual >= 16
              /\ (tarea.pc = "done" /\ tarea.response.status = 200) =>
                    /\ (tarea.fetch_log = <<7, 16>>) <=> (tarea.hora_actual >= 16)
                    /\ (tarea.fetch_log = <<7>>) <=> (tarea.hora_actual < 16)
                    /\ DayAfter \in DiasDe(tarea.response) =>
                          (tarea.hora_actual >= 16 /\ tarea.fetch_log = <<7, 16>>)
                    /\ (tarea.hora_actual >= 16 /\ HayVespertino(tarea.processor)) =>
                          DayAfter \in DiasDe(tarea.response)

\* a request that read 15 was answered after the wall clock passed 16:00,
\* from the morning run alone although the afternoon run is in the store
C29_Witness ==
    /\ reloj = 16
    /\ tareas[1].pc = "done"
    /\ tareas[1].hora_actual = 15
    /\ tareas[1].fetch_log = <<7>>
    /\ tareas[1].response.status = 200
    /\ DiasDe(tareas[1].response) = {RefDay}
    /\ HayVespertino(tareas[1].processor)

\* C30: each module-level query function of postgres_data_service closes
\* the connection of the ForecastDataService it built on every exit path,
\* normal or exceptional: once it has returned or raised, no connection it
\* created is open, and no query ran on the service after close.
C30_ConnectionsClosed ==
    /\ pg_pc \in {"returned", "raised"} =>
          /\ pg_cerrado
          /\ pg_conexion = "none"
          /\ pg_abiertas = 0
    /\ pg_cerrado => pg_pc \in {"returned", "raised"}
    /\ \A i \in 1..Len(pg_log) : ~pg_log[i].tras_close
    /\ pg_abiertas \in {0, 1}

\* db_query_last_predhour returned after both of its queries, the service
\* having connected on construction
C30_Witness ==
    /\ pg_funcion = "db_query_last_predhour"
    /\ pg_pc = "returned"
    /\ Len(pg_log) = 2
    /\ pg_log[1].filas
    /\ pg_log[2].filas
    /\ pg_abiertas = 0

\* a function without an except clause left by an exception after a query
C30_WitnessRaised ==
    /\ pg_funcion = "db_query_last_predhour"
    /\ pg_pc = "raised"
    /\ Len(pg_log) = 1
    /\ pg_log[1].filas
    /\ pg_cerrado

=============================================================================
